---------------------------- MODULE Spec2Model ----------------------------
(***************************************************************************)
(* Model of the Gemini helpers of the interview-preparation server:        *)
(* retryWithBackoff, generateEmbeddings, evaluateAllAnswers,               *)
(* cosineSimilarity and findSimilarChunks                                  *)
(* (src/server/controllers/documentController.js, lines 498-1043).         *)
(*                                                                         *)
(* Strings are modelled as sequences of words, so that                     *)
(* String.prototype.includes is a contiguous-subsequence test.  An Error   *)
(* is a record of the fields the code reads (status, response.status,      *)
(* message) plus the number of the attempt that raised it, which gives     *)
(* every raised error an identity.                                         *)
(***************************************************************************)
EXTENDS Integers, Sequences, FiniteSets, TLC

VARIABLES
    caller,      \* which operation runs: "retry", "embed", "eval" or "similar"
    rpc,         \* retryWithBackoff: "idle", "attempt", "inflight", "sleeping", "returned", "thrown"
    ri,          \* retryWithBackoff: the loop variable i
    rlog,        \* retryWithBackoff: the outcome of every fn() call so far, in order
    rdelays,     \* retryWithBackoff: for every setTimeout so far, [before |-> attempt, ms |-> delay]
    rout,        \* retryWithBackoff: the value returned or the error thrown
    svcCalls,    \* number of service calls issued by the running operation
    texts,       \* generateEmbeddings: the argument
    tidx,        \* generateEmbeddings: position of the for...of loop (1-based)
    embeddings,  \* generateEmbeddings: the local array `embeddings`
    epc,         \* generateEmbeddings: "idle", "loop", "retrying", "done"
    eout,        \* generateEmbeddings: the value returned or the error thrown
    qa,          \* evaluateAllAnswers: the argument questionsAndAnswers
    vpc,         \* evaluateAllAnswers: "idle", "start", "retrying", "caught", "done"
    verr,        \* evaluateAllAnswers: the error the catch block received
    vout,        \* evaluateAllAnswers: the value returned or the error thrown
    queryEmbedding, \* findSimilarChunks: the first argument
    chunks,      \* findSimilarChunks: the second argument
    topK,        \* findSimilarChunks: the third argument
    spc,         \* findSimilarChunks: "idle", "start", "done"
    sout,        \* findSimilarChunks: the list returned
    chunkIn,     \* chunkText: the arguments [text, wordsPerChunk]
    chunkOut,    \* chunkText: the list returned
    gen,         \* generateInterviewQuestions: [pc, jdText, numQuestions, out]
    chat,        \* the Chat collection: session id -> session, or NoChat
    documents,   \* the Document collection: a set of documents
    blobs,       \* the Cloudinary store: the set of public ids it holds
    uploads,     \* uploadDocument: the frame of every request
    res          \* the responses sent so far by the chat route handlers

(***************************************************************************)
(* Retry configuration                                                     *)
(***************************************************************************)
\* mutant: one attempt more than configured
MAX_RETRIES_OneMore == 3 + 1

MAX_RETRIES == 3

INITIAL_RETRY_DELAY == 1000

(***************************************************************************)
(* JavaScript values: null, numbers, strings (sequences of words, " " is   *)
(* a run of whitespace) and arrays                                         *)
(***************************************************************************)
JSVal(type, n, s, a) == [type |-> type, n |-> n, s |-> s, a |-> a]

Null == JSVal("null", 0, <<>>, <<>>)

Num(n) == JSVal("number", n, <<>>, <<>>)

Str(s) == JSVal("string", 0, s, <<>>)

Arr(a) == JSVal("array", 0, <<>>, a)

\* !v
Falsy(v) ==
    \/ v.type = "null"
    \/ v.type = "number" /\ v.n = 0
    \/ v.type = "string" /\ v.s = <<>>

IsString(v) == v.type = "string"

IsArray(v) == v.type = "array"

\* s.trim().length === 0
BlankWords(s) == \A k \in DOMAIN s : s[k] = " "

\* haystack.includes(needle)
Includes(haystack, needle) ==
    \E k \in 0..(Len(haystack) - Len(needle)) :
        \A j \in 1..Len(needle) : haystack[k + j] = needle[j]

\* Math.pow(2, i)
RECURSIVE Pow2(_)
Pow2(i) == IF i = 0 THEN 1 ELSE 2 * Pow2(i - 1)

(***************************************************************************)
(* Errors and outcomes of the wrapped call fn()                            *)
(***************************************************************************)
\* an Error raised by attempt number `at` (0-indexed)
Err(at, status, respStatus, message) ==
    [at |-> at, status |-> status, respStatus |-> respStatus, message |-> message]

NoErr == Err(-1, 0, 0, <<>>)

Resolved(v) == [ok |-> TRUE, val |-> v, err |-> NoErr]

Rejected(e) == [ok |-> FALSE, val |-> <<>>, err |-> e]

NoOutcome == [ok |-> FALSE, val |-> <<>>, err |-> NoErr]

\* the failures an external service call can produce: transient ones (by
\* status, by response.status, by message), permanent ones, and mixed ones
ServiceErrors(at) ==
    { Err(at, 429, 0, <<"Too", "Many", "Requests">>),
      Err(at, 503, 0, <<"Service", "Unavailable">>),
      Err(at, 0, 429, <<>>),
      Err(at, 0, 503, <<"fetch", "failed">>),
      Err(at, 0, 0, <<"The", "model", "is", "overloaded">>),
      Err(at, 0, 0, <<"rate", "limit", "exceeded">>),
      Err(at, 400, 0, <<"API", "rate", "limit", "hit">>),
      Err(at, 500, 0, <<"Internal", "error">>),
      Err(at, 500, 503, <<"Internal", "error">>),
      Err(at, 0, 0, <<"rate", "of", "requests", "over", "limit">>),
      Err(at, 0, 404, <<"model", "not", "found">>),
      Err(at, 0, 0, <<>>) }

(***************************************************************************)
(* retryWithBackoff                                                        *)
(***************************************************************************)
\* const status = error?.status || error?.response?.status;
StatusOf(error) == IF error.status # 0 THEN error.status ELSE error.respStatus

\* mutant: every failure is taken for a transient one
isRateLimitError_Always(error) == StatusOf(error) = StatusOf(error)

isRateLimitError(error) ==
    \/ StatusOf(error) = 503
    \/ StatusOf(error) = 429
    \/ Includes(error.message, <<"overloaded">>)
    \/ Includes(error.message, <<"rate", "limit">>)

isLastRetry(i, retries) == i = retries - 1

\* const delay = INITIAL_RETRY_DELAY * Math.pow(2, i);
BackoffDelay(i) == INITIAL_RETRY_DELAY * Pow2(i)

\* mutant: a new error is thrown in place of the caught one
Rethrown_Wrapped(error) ==
    Err(error.at, 0, 0, <<"API", "call", "failed:">> \o error.message)

\* the error the catch block rethrows
Rethrown(error) == error


retryVars == <<rpc, ri, rlog, rdelays, rout, svcCalls>>

\* the state of the route handlers, of chunkText and of
\* generateInterviewQuestions
storeVars == <<chunkIn, chunkOut, gen, chat, documents, blobs, uploads, res>>

\* no route handler, chunkText or generateInterviewQuestions call is running
\* and the collections are empty
StoreIdle ==
    /\ chunkIn = <<>> /\ chunkOut = <<>>
    /\ gen = <<>>
    /\ chat = <<>> /\ documents = {} /\ blobs = {}
    /\ uploads = <<>> /\ res = <<>>

\* retryWithBackoff(fn) has just been called: i = 0, nothing attempted yet
RetryStart ==
    /\ rpc' = "attempt"
    /\ ri' = 0
    /\ rlog' = <<>>
    /\ rdelays' = <<>>
    /\ rout' = NoOutcome
    /\ svcCalls' = svcCalls

\* the call has returned or thrown and its frame is gone
RetryEnd ==
    /\ rpc' = "idle"
    /\ ri' = 0
    /\ rlog' = <<>>
    /\ rdelays' = <<>>
    /\ rout' = NoOutcome
    /\ svcCalls' = svcCalls

RetryIdle ==
    /\ rpc = "idle"
    /\ ri = 0
    /\ rlog = <<>>
    /\ rdelays = <<>>
    /\ rout = NoOutcome

(***************************************************************************)
(* generateEmbeddings                                                      *)
(***************************************************************************)
embeddingDimension == 768

\* new Array(embeddingDimension).fill(0)
ZeroVector == [k \in 1..embeddingDimension |-> 0]

\* the vector the embedding service computes for a text: one per text
ServiceVector(text) ==
    [k \in 1..embeddingDimension |-> IF text.s[1] = "resume" THEN 1 ELSE 2]

\* mutant: a blank string is sent to the service like any other string
InvalidText_NonStringOnly(text) == ~IsString(text)

\* line 600
InvalidText(text) ==
    Falsy(text) \/ ~IsString(text) \/ BlankWords(text.s)

\* what model.embedContent(text) can answer: res.embedding.values
EmbedResponses(text) ==
    { Arr(ServiceVector(text)),
      Arr(SubSeq(ServiceVector(text), 1, embeddingDimension - 1)),
      Arr(<<>>),
      Null,
      Str(<<"0.1,0.2">>) }

\* line 610
InvalidEmbedResponse(values) ==
    Falsy(values) \/ ~IsArray(values) \/ Len(values.a) # embeddingDimension

EmbedErrors(at) ==
    { Err(at, 503, 0, <<"Service", "Unavailable">>),
      Err(at, 0, 0, <<"rate", "limit", "exceeded">>),
      Err(at, 500, 0, <<"Internal", "error">>) }

\* lines 608-615: the function wrapped for one text
EmbedFnOutcomes(at, text) ==
    {Rejected(e) : e \in EmbedErrors(at)} \cup
    { IF InvalidEmbedResponse(values)
        THEN Rejected(Err(at, 0, 0, <<"Invalid", "embedding", "response", "for", "chunk">>))
        ELSE Resolved(values.a) : values \in EmbedResponses(text) }

\* mutant: an empty array is pushed as the placeholder
Placeholder_Empty == <<>>

\* lines 603, 620: the placeholder pushed for an invalid or failed item
Placeholder == ZeroVector

embedVars == <<texts, tidx, embeddings, epc, eout>>

evalVars == <<qa, vpc, verr, vout>>

simVars == <<queryEmbedding, chunks, topK, spc, sout>>

EmbedIdle ==
    /\ texts = Null
    /\ tidx = 0
    /\ embeddings = <<>>
    /\ epc = "idle"
    /\ eout = NoOutcome

\* lines 589-591, 627-631: the argument is rejected
EmbedReject ==
    /\ caller = "embed"
    /\ epc = "loop"
    /\ ~IsArray(texts) \/ Len(texts.a) = 0
    /\ epc' = "done"
    /\ eout' = Rejected(Err(0, 0, 0, <<"Failed", "to", "generate", "embeddings:", "Input",
                                     "must", "be", "a", "non-empty", "array">>))
    /\ UNCHANGED <<caller, storeVars, texts, tidx, embeddings, retryVars, evalVars, simVars>>

\* lines 598-605: an empty or invalid item gets the placeholder, no call
EmbedSkip ==
    /\ caller = "embed"
    /\ epc = "loop"
    /\ IsArray(texts) /\ Len(texts.a) > 0
    /\ tidx <= Len(texts.a)
    /\ InvalidText(texts.a[tidx])
    /\ embeddings' = Append(embeddings, Placeholder)
    /\ tidx' = tidx + 1
    /\ UNCHANGED <<caller, storeVars, texts, epc, eout, retryVars, evalVars, simVars>>

\* line 608: retryWithBackoff is called for the item
EmbedBegin ==
    /\ caller = "embed"
    /\ epc = "loop"
    /\ IsArray(texts) /\ Len(texts.a) > 0
    /\ tidx <= Len(texts.a)
    /\ ~InvalidText(texts.a[tidx])
    /\ epc' = "retrying"
    /\ RetryStart
    /\ UNCHANGED <<caller, storeVars, texts, tidx, embeddings, eout, evalVars, simVars>>

\* lines 616-621: push the result, or the placeholder when the call failed
EmbedCollect ==
    /\ caller = "embed"
    /\ epc = "retrying"
    /\ rpc \in {"returned", "thrown"}
    /\ embeddings' = Append(embeddings, IF rpc = "returned" THEN rout.val ELSE Placeholder)
    /\ tidx' = tidx + 1
    /\ epc' = "loop"
    /\ RetryEnd
    /\ UNCHANGED <<caller, storeVars, texts, eout, evalVars, simVars>>

\* line 625
EmbedReturn ==
    /\ caller = "embed"
    /\ epc = "loop"
    /\ IsArray(texts) /\ Len(texts.a) > 0
    /\ tidx > Len(texts.a)
    /\ epc' = "done"
    /\ eout' = Resolved(embeddings)
    /\ UNCHANGED <<caller, storeVars, texts, tidx, embeddings, retryVars, evalVars, simVars>>

(***************************************************************************)
(* evaluateAllAnswers.  The model's answer is a sequence of tokens: a      *)
(* header "Question <n>:", whitespace, a score label followed by digits    *)
(* ("Relevance: 8/10"), the label "Feedback:", or any other word.          *)
(* resumeContext only enters the prompt and is left out.                   *)
(***************************************************************************)
Tok(k, n, w) == [k |-> k, n |-> n, w |-> w]

Hdr(n) == Tok("hdr", n, "Question:")

Ws == Tok("ws", 0, " ")

Word(w) == Tok("word", 0, w)

Rel(n) == Tok("rel", n, "Relevance:")

Cor(n) == Tok("cor", n, "Correctness:")

Ovr(n) == Tok("ovr", n, "Overall:")

Fb == Tok("fb", 0, "Feedback:")

\* text.split(/Question\s+\d+:/i): the pieces between the headers, the one
\* before the first header included
RECURSIVE SplitFrom(_, _)
SplitFrom(toks, cur) ==
    IF toks = <<>> THEN <<cur>>
    ELSE IF Head(toks).k = "hdr" THEN <<cur>> \o SplitFrom(Tail(toks), <<>>)
    ELSE SplitFrom(Tail(toks), Append(cur, Head(toks)))

SplitOnHeaders(toks) == SplitFrom(toks, <<>>)

\* block.trim() is not empty
NonBlank(block) == \E k \in DOMAIN block : block[k].k # "ws"

\* mutant: the blank pieces are not filtered out
QuestionBlocks_Unfiltered(toks) == SplitOnHeaders(toks)

\* line 871
QuestionBlocks(toks) == SelectSeq(SplitOnHeaders(toks), NonBlank)

\* block.trim()
RECURSIVE TrimLeft(_)
TrimLeft(b) == IF b # <<>> /\ Head(b).k = "ws" THEN TrimLeft(Tail(b)) ELSE b

RECURSIVE TrimRight(_)
TrimRight(b) ==
    IF b # <<>> /\ b[Len(b)].k = "ws" THEN TrimRight(SubSeq(b, 1, Len(b) - 1)) ELSE b

Trim(b) == TrimRight(TrimLeft(b))

\* block.match(/<label>:\s*(\d+).../i): the first occurrence of the label
HasTok(b, kind) == \E k \in DOMAIN b : b[k].k = kind

FirstTok(b, kind) ==
    CHOOSE k \in DOMAIN b : b[k].k = kind /\ \A j \in 1..(k - 1) : b[j].k # kind

Words(b) == [k \in DOMAIN b |-> b[k].w]

Min2(a, b) == IF a < b THEN a ELSE b

Max2(a, b) == IF a > b THEN a ELSE b

\* mutant: the upper limit is not applied
Clamp_NoUpper(x) == Max2(1, IF x = 0 THEN 1 ELSE x)

\* Math.max(1, Math.min(10, x || 1))
Clamp(x) == Max2(1, Min2(10, IF x = 0 THEN 1 ELSE x))

\* Math.round((r + c) / 2), r and c non-negative integers
RoundedMean(r, c) == (r + c + 1) \div 2

Evaluation(score, relevanceScore, correctnessScore, feedback) ==
    [score |-> score, relevanceScore |-> relevanceScore,
     correctnessScore |-> correctnessScore, feedback |-> feedback]

UnparsedFeedback == <<"Feedback", "could", "not", "be", "parsed.">>

\* lines 879-908
ParseBlock(rawBlock) ==
    LET block == Trim(rawBlock)
        relevanceScore == IF HasTok(block, "rel") THEN block[FirstTok(block, "rel")].n ELSE 5
        correctnessScore == IF HasTok(block, "cor") THEN block[FirstTok(block, "cor")].n ELSE 5
        overallScore == IF HasTok(block, "ovr") THEN block[FirstTok(block, "ovr")].n
                        ELSE RoundedMean(relevanceScore, correctnessScore)
        feedback == IF HasTok(block, "fb")
                    THEN Words(Trim(SubSeq(block, FirstTok(block, "fb") + 1, Len(block))))
                    ELSE UnparsedFeedback
    IN  Evaluation(Clamp(overallScore), Clamp(relevanceScore), Clamp(correctnessScore), feedback)

\* lines 915-920
MissingEvaluation ==
    Evaluation(1, 1, 1, <<"Evaluation", "for", "this", "question", "was", "missing",
                          "in", "the", "AI", "response.">>)

\* mutant: the entries for the missing blocks are put in front
PadTo_Front(evaluations, n) ==
    [k \in 1..(IF Len(evaluations) < n THEN n - Len(evaluations) ELSE 0)
       |-> MissingEvaluation] \o evaluations

\* lines 913-921
PadTo(evaluations, n) ==
    evaluations \o [k \in 1..(IF Len(evaluations) < n THEN n - Len(evaluations) ELSE 0)
                      |-> MissingEvaluation]

\* mutant: the last n entries are kept
TrimTo_KeepLast(evaluations, n) ==
    IF Len(evaluations) > n
    THEN SubSeq(evaluations, Len(evaluations) - n + 1, Len(evaluations))
    ELSE evaluations

\* lines 924-927
TrimTo(evaluations, n) ==
    IF Len(evaluations) > n THEN SubSeq(evaluations, 1, n) ELSE evaluations

\* lines 878-929
ParseEvaluations(blocks, n) ==
    TrimTo(PadTo([k \in 1..Len(blocks) |-> ParseBlock(blocks[k])], n), n)

\* mutant: the fallback feedback leaves the error message out
FallbackEvaluations_NoMessage(pairs, error) ==
    [k \in 1..Len(pairs) |->
        Evaluation(1, 1, 1, <<"A", "critical", "error", "occurred", "during", "evaluation.">>)]

\* lines 935-940
FallbackEvaluations(pairs, error) ==
    [k \in 1..Len(pairs) |->
        Evaluation(1, 1, 1,
                   <<"A", "critical", "error", "occurred", "during", "evaluation:">>
                   \o error.message
                   \o <<"Unable", "to", "provide", "feedback", "for", "question", ToString(k)>>)]

\* an entry of questionsAndAnswers: null, or an object with two fields
Entry(type, question, answer) == [type |-> type, question |-> question, answer |-> answer]

\* mutant: an empty answer is rejected too
InvalidEntry_EmptyAnswer(e) ==
    e.type = "null" \/ ~IsString(e.question) \/ ~IsString(e.answer) \/ Falsy(e.answer)

\* line 787
InvalidEntry(e) == e.type = "null" \/ ~IsString(e.question) \/ ~IsString(e.answer)

\* lines 786-790: the index of the first invalid entry, 0 when there is none
FirstInvalid(pairs) ==
    IF \E k \in DOMAIN pairs : InvalidEntry(pairs[k])
    THEN CHOOSE k \in DOMAIN pairs :
            InvalidEntry(pairs[k]) /\ \A j \in 1..(k - 1) : ~InvalidEntry(pairs[j])
    ELSE 0

EmptyInputMessage == <<"Must", "provide", "a", "non-empty", "array", "of", "questions", "and", "answers">>

InvalidEntryMessage(k) == <<"Invalid", "format", "for", "question/answer", "pair", "at", "index", ToString(k - 1)>>

ParseFailureMessage == <<"Failed", "to", "parse", "evaluation", "response", "format.">>

\* lines 783-790: the error the validation throws, NoErr when it passes
ValidationError(input) ==
    IF ~IsArray(input) \/ Len(input.a) = 0 THEN Err(0, 0, 0, EmptyInputMessage)
    ELSE IF FirstInvalid(input.a) # 0 THEN Err(0, 0, 0, InvalidEntryMessage(FirstInvalid(input.a)))
    ELSE NoErr

\* what generateContent can answer: [text, finishReason]
Answer(text, finishReason) == [text |-> text, finishReason |-> finishReason]

\* lines 851-865: the function wrapped by retryWithBackoff, given the answer
EvalCheckAnswer(at, answer) ==
    IF answer.text = <<>> \/ ~NonBlank(answer.text)
    THEN IF answer.finishReason = "SAFETY"
         THEN Rejected(Err(at, 0, 0, <<"Evaluation", "response", "blocked", "due", "to", "safety", "filters.">>))
         ELSE IF answer.finishReason = "MAX_TOKENS"
         THEN Rejected(Err(at, 0, 0, <<"Evaluation", "response", "exceeded", "maximum", "length.">>))
         ELSE Rejected(Err(at, 0, 0, <<"Empty", "evaluation", "response", "received", "from", "AI", "model">>))
    ELSE Resolved(answer.text)

EvalErrors(at) ==
    { Err(at, 429, 0, <<"Too", "Many", "Requests">>),
      Err(at, 0, 0, <<"The", "model", "is", "overloaded">>),
      Err(at, 400, 0, <<"Invalid", "request">>) }

(***************************************************************************)
(* The answers the generation service is made to give                      *)
(***************************************************************************)
MaxBlocks == 3

MaxPairs == 2

\* the bodies that follow a header: the template's four lines; scores out
\* of range with no overall and no feedback; an overall of 0 and an empty
\* feedback; no label at all; whitespace only
Bodies ==
    { <<Ws, Rel(8), Ws, Cor(6), Ws, Ovr(7), Ws, Fb, Ws, Word("Good"), Ws>>,
      <<Ws, Rel(15), Ws, Cor(0), Ws>>,
      <<Ws, Cor(3), Ws, Ovr(0), Ws, Fb, Ws>>,
      <<Ws, Word("N/A"), Ws>>,
      <<Ws>> }

Preambles == {<<>>, <<Ws>>, <<Word("Here"), Ws>>}

RECURSIVE Flatten(_)
Flatten(seqs) == IF seqs = <<>> THEN <<>> ELSE Head(seqs) \o Flatten(Tail(seqs))

\* a preamble, then n headed blocks numbered 1..n or n..1
ResponseText(pre, bodies, reversed) ==
    pre \o Flatten([k \in 1..Len(bodies) |->
                      <<Hdr(IF reversed THEN Len(bodies) - k + 1 ELSE k)>> \o bodies[k]])

ResponseTexts ==
    { ResponseText(pre, bodies, reversed) :
        pre \in Preambles,
        bodies \in UNION {[1..n -> Bodies] : n \in 0..MaxBlocks},
        reversed \in BOOLEAN }

Answers ==
    {Answer(t, "STOP") : t \in ResponseTexts} \cup
    {Answer(t, fr) : t \in {<<>>, <<Ws>>}, fr \in {"SAFETY", "MAX_TOKENS"}}

\* lines 840-866: the function wrapped for the evaluation prompt
EvalFnOutcomes(at) ==
    {Rejected(e) : e \in EvalErrors(at)} \cup {EvalCheckAnswer(at, a) : a \in Answers}

Question == Str(<<"Explain", "React", "hooks">>)

Entries ==
    { Entry("object", Question, Str(<<"Hooks", "are", "functions">>)),
      Entry("object", Question, Str(<<>>)),
      Entry("object", Question, Null),
      Entry("object", Num(1), Str(<<"Hooks">>)),
      Entry("null", Null, Null) }

EvalInputs ==
    {Arr(pairs) : pairs \in UNION {[1..n -> Entries] : n \in 0..MaxPairs}}
    \cup {Null, Str(<<"Q1", " ", "A1">>)}

EvalIdle ==
    /\ qa = Null
    /\ vpc = "idle"
    /\ verr = NoErr
    /\ vout = NoOutcome

\* lines 783-790: the validation throws; control passes to the catch block
EvalInvalid ==
    /\ caller = "eval"
    /\ vpc = "start"
    /\ ValidationError(qa) # NoErr
    /\ vpc' = "caught"
    /\ verr' = ValidationError(qa)
    /\ UNCHANGED <<caller, storeVars, qa, vout, retryVars, embedVars, simVars>>

\* line 840: the prompt is built and retryWithBackoff is called
EvalBegin ==
    /\ caller = "eval"
    /\ vpc = "start"
    /\ ValidationError(qa) = NoErr
    /\ vpc' = "retrying"
    /\ RetryStart
    /\ UNCHANGED <<caller, storeVars, qa, verr, vout, embedVars, simVars>>

\* the generation call failed for good: control passes to the catch block
EvalFail ==
    /\ caller = "eval"
    /\ vpc = "retrying"
    /\ rpc = "thrown"
    /\ vpc' = "caught"
    /\ verr' = rout.err
    /\ UNCHANGED <<caller, storeVars, qa, vout, retryVars, embedVars, simVars>>

\* lines 868-929: parse the answer; no block at all throws
EvalParse ==
    /\ caller = "eval"
    /\ vpc = "retrying"
    /\ rpc = "returned"
    /\ LET questionBlocks == QuestionBlocks(rout.val)
       IN  IF Len(questionBlocks) = 0
           THEN /\ vpc' = "caught"
                /\ verr' = Err(0, 0, 0, ParseFailureMessage)
                /\ vout' = vout
           ELSE /\ vpc' = "done"
                /\ verr' = verr
                /\ vout' = Resolved(ParseEvaluations(questionBlocks, Len(qa.a)))
    /\ UNCHANGED <<caller, storeVars, qa, retryVars, embedVars, simVars>>

\* lines 931-941: the catch block maps the argument to fallback entries;
\* .map of a value that is no array throws a TypeError out of the function
EvalCatch ==
    /\ caller = "eval"
    /\ vpc = "caught"
    /\ vpc' = "done"
    /\ vout' = IF IsArray(qa)
               THEN Resolved(FallbackEvaluations(qa.a, verr))
               ELSE Rejected(Err(0, 0, 0, <<"TypeError:", "questionsAndAnswers.map", "is", "not", "a", "function">>))
    /\ UNCHANGED <<caller, storeVars, qa, verr, retryVars, embedVars, simVars>>

(***************************************************************************)
(* generateInterviewQuestions.  The text of a question list is a sequence  *)
(* of lines; a line is [num, words]: the number of its "N." prefix (0 when *)
(* it has none) and the words that follow.                                 *)
(***************************************************************************)
Line(num, words) == [num |-> num, words |-> words]

\* the texts the generation service is made to give for a question prompt:
\* the numbered list asked for, one with a preamble and a blank line, one
\* whose second line lost its text, one without any numbered line
GeneratedTexts ==
    { <<Line(1, <<"Explain", "React", "hooks">>), Line(2, <<"Describe", "a", "conflict">>)>>,
      <<Line(1, <<"What", "is", "MongoDB?">>), Line(2, <<"Explain", "Express">>),
        Line(3, <<"Describe", "teamwork">>)>>,
      <<Line(0, <<"Here", "are", "the", "questions:">>), Line(0, <<>>),
        Line(1, <<"Explain", "Node.js">>), Line(2, <<"Describe", "a", "challenge">>), Line(0, <<>>)>>,
      <<Line(1, <<"Explain", "Tailwind">>), Line(2, <<>>)>>,
      <<Line(0, <<"I", "cannot", "help", "with", "that.">>)>> }

\* text.trim(): the blank lines at both ends go
RECURSIVE TrimText(_)
TrimText(text) ==
    IF text = <<>> THEN <<>>
    ELSE IF Head(text) = Line(0, <<>>) THEN TrimText(Tail(text))
    ELSE IF text[Len(text)] = Line(0, <<>>) THEN TrimText(SubSeq(text, 1, Len(text) - 1))
    ELSE text

\* lines 712-747: the function wrapped for the question prompt
QuestionsFnOutcomes(at) ==
    {Rejected(e) : e \in EvalErrors(at)} \cup
    {Resolved(TrimText(t)) : t \in GeneratedTexts} \cup
    { Rejected(Err(at, 0, 0,
        CASE fr = "SAFETY" -> <<"Content", "blocked", "by", "safety", "filters.", "Try",
                                "modifying", "the", "job", "description", "text.">>
          [] fr = "MAX_TOKENS" -> <<"AI", "response", "exceeded", "maximum", "length",
                                    "(2048", "tokens).", "Try", "requesting", "fewer",
                                    "questions", "or", "ensure", "the", "JD", "text",
                                    "is", "concise.">>
          [] OTHER -> <<"Empty", "response", "received", "from", "AI", "model", "when",
                        "generating", "questions">>)) :
        fr \in {"SAFETY", "MAX_TOKENS", "STOP"} }

\* lines 751-773: the error the catch block throws for the one it caught
UserFacingError(error) ==
    Err(error.at, 0, 0,
        IF StatusOf(error) = 503 \/ Includes(error.message, <<"overloaded">>)
        THEN <<"AI", "service", "is", "temporarily", "overloaded.">>
        ELSE IF StatusOf(error) = 429 \/ Includes(error.message, <<"rate", "limit">>)
        THEN <<"Rate", "limit", "reached.">>
        ELSE IF StatusOf(error) = 404
        THEN <<"AI", "model", "not", "found.">>
        ELSE IF StatusOf(error) = 400 \/ Includes(error.message, <<"Invalid", "request">>)
        THEN IF Includes(error.message, <<"safety">>) \/ Includes(error.message, <<"blocked">>)
             THEN <<"Content", "blocked", "by", "safety", "filters.", "Please", "review",
                    "the", "job", "description", "text.">>
             ELSE <<"Invalid", "request", "sent", "to", "AI", "service.">>
        ELSE IF Includes(error.message, <<"quota">>)
        THEN <<"API", "quota", "exceeded.">>
        ELSE <<"Unable", "to", "generate", "questions:">> \o error.message)

\* lines 683-688: the arguments are rejected; the catch block rethrows
QuestionsInvalid ==
    /\ caller = "questions"
    /\ gen.pc = "start"
    /\ \/ Falsy(gen.jdText) \/ ~IsString(gen.jdText) \/ BlankWords(gen.jdText.s)
       \/ ~(gen.numQuestions.type = "number" /\ gen.numQuestions.n \in 2..10)
    /\ gen' = [gen EXCEPT !.pc = "done", !.out = Rejected(UserFacingError(Err(0, 0, 0,
                 IF Falsy(gen.jdText) \/ ~IsString(gen.jdText) \/ BlankWords(gen.jdText.s)
                 THEN <<"Job", "description", "text", "must", "be", "a", "non-empty", "string">>
                 ELSE <<"Number", "of", "questions", "must", "be", "an", "integer",
                        "between", "2", "and", "10">>)))]
    /\ UNCHANGED <<caller, retryVars, embedVars, evalVars, simVars,
                   chunkIn, chunkOut, chat, documents, blobs, uploads, res>>

\* line 712: the prompt is built and retryWithBackoff is called
QuestionsBegin ==
    /\ caller = "questions"
    /\ gen.pc = "start"
    /\ ~(Falsy(gen.jdText) \/ ~IsString(gen.jdText) \/ BlankWords(gen.jdText.s))
    /\ gen.numQuestions.type = "number" /\ gen.numQuestions.n \in 2..10
    /\ gen' = [gen EXCEPT !.pc = "retrying"]
    /\ RetryStart
    /\ UNCHANGED <<caller, embedVars, evalVars, simVars,
                   chunkIn, chunkOut, chat, documents, blobs, uploads, res>>

\* lines 749-773: the generated text is returned, or the error is mapped
QuestionsSettle ==
    /\ caller = "questions"
    /\ gen.pc = "retrying"
    /\ rpc \in {"returned", "thrown"}
    /\ gen' = [gen EXCEPT !.pc = "done",
                          !.out = IF rpc = "returned" THEN rout
                                  ELSE Rejected(UserFacingError(rout.err))]
    /\ UNCHANGED <<caller, retryVars, embedVars, evalVars, simVars,
                   chunkIn, chunkOut, chat, documents, blobs, uploads, res>>

(***************************************************************************)
(* retryWithBackoff, step by step                                          *)
(***************************************************************************)
\* what fn() can settle to on attempt `at`, by the operation that wraps it
GenericFnOutcomes(at) ==
    {Resolved(<<"value">>)} \cup {Rejected(e) : e \in ServiceErrors(at)}

FnOutcomes(at) ==
    CASE caller = "embed" -> EmbedFnOutcomes(at, texts.a[tidx])
      [] caller = "eval" -> EvalFnOutcomes(at)
      [] caller = "questions" -> QuestionsFnOutcomes(at)
      [] OTHER -> GenericFnOutcomes(at)

\* line 508, `await fn()`: fn is invoked; it issues one service call
RetryInvoke ==
    /\ rpc = "attempt"
    /\ rpc' = "inflight"
    /\ svcCalls' = svcCalls + 1
    /\ UNCHANGED <<caller, storeVars, ri, rlog, rdelays, rout, embedVars, evalVars, simVars>>

\* lines 508-524: fn() settles; return its value, rethrow, or schedule the
\* backoff timer that precedes the next attempt
RetrySettle(retries) ==
    /\ rpc = "inflight"
    /\ \E o \in FnOutcomes(ri) :
         /\ rlog' = Append(rlog, o)
         /\ IF o.ok
              THEN /\ rpc' = "returned"
                   /\ rout' = o
                   /\ rdelays' = rdelays
              ELSE IF isLastRetry(ri, retries) \/ ~isRateLimitError(o.err)
              THEN /\ rpc' = "thrown"
                   /\ rout' = Rejected(Rethrown(o.err))
                   /\ rdelays' = rdelays
              ELSE /\ rpc' = "sleeping"
                   /\ rout' = rout
                   /\ rdelays' = Append(rdelays, [before |-> ri + 1, ms |-> BackoffDelay(ri)])
    /\ UNCHANGED <<caller, storeVars, ri, svcCalls, embedVars, evalVars, simVars>>

\* lines 524, 506, 529: the timer fires, i++; the loop goes on while
\* i < retries, else the safeguard error after the loop is thrown
RetryWake(retries) ==
    /\ rpc = "sleeping"
    /\ ri' = ri + 1
    /\ IF ri + 1 < retries
         THEN /\ rpc' = "attempt"
              /\ rout' = rout
         ELSE /\ rpc' = "thrown"
              /\ rout' = Rejected(Err(ri + 1, 0, 0, <<"API", "call", "failed", "after", "retries">>))
    /\ UNCHANGED <<caller, storeVars, rlog, rdelays, svcCalls, embedVars, evalVars, simVars>>

(***************************************************************************)
(* cosineSimilarity and findSimilarChunks.  A vector is an array of        *)
(* JavaScript values.  The numeric vectors drawn have an integral          *)
(* magnitude, so Math.sqrt is exact and the double dot / (|a| * |b|) is    *)
(* the correctly rounded quotient of two integers: comparing those         *)
(* doubles is comparing the fractions [num, den] kept here.                *)
(***************************************************************************)
Frac(num, den) == [num |-> num, den |-> den]

\* a - b < 0 for fractions with positive denominators
FracLess(a, b) == a.num * b.den < b.num * a.den

IsNumber(v) == v.type = "number"

RECURSIVE SumTo(_, _, _)
SumTo(vecA, vecB, k) ==
    IF k = 0 THEN 0 ELSE SumTo(vecA, vecB, k - 1) + vecA[k].n * vecB[k].n

\* vecA.reduce((sum, a, i) => sum + a * vecB[i], 0)
Dot(vecA, vecB) == SumTo(vecA, vecB, Len(vecA))

\* Math.sqrt of a perfect square
Sqrt(n) == CHOOSE r \in 0..n : r * r = n

\* lines 947-986: [threw, value]
cosineSimilarity(vecA, vecB) ==
    IF ~IsArray(vecA) \/ ~IsArray(vecB) THEN [threw |-> FALSE, value |-> Frac(0, 1)]
    ELSE IF Len(vecA.a) = 0 \/ Len(vecA.a) # Len(vecB.a) THEN [threw |-> TRUE, value |-> Frac(0, 1)]
    ELSE IF \/ \E k \in DOMAIN vecA.a : ~IsNumber(vecA.a[k])
            \/ \E k \in DOMAIN vecB.a : ~IsNumber(vecB.a[k])
         THEN [threw |-> TRUE, value |-> Frac(0, 1)]
    ELSE LET dotProduct == Dot(vecA.a, vecB.a)
             magnitudeA == Sqrt(Dot(vecA.a, vecA.a))
             magnitudeB == Sqrt(Dot(vecB.a, vecB.a))
         IN  IF magnitudeA = 0 \/ magnitudeB = 0 THEN [threw |-> FALSE, value |-> Frac(0, 1)]
             ELSE IF dotProduct > magnitudeA * magnitudeB THEN [threw |-> FALSE, value |-> Frac(1, 1)]
             ELSE IF dotProduct < -(magnitudeA * magnitudeB) THEN [threw |-> FALSE, value |-> Frac(-1, 1)]
             ELSE [threw |-> FALSE, value |-> Frac(dotProduct, magnitudeA * magnitudeB)]

\* a chunk: null, or an object { text, embedding }
Chunk(type, text, embedding) == [type |-> type, text |-> text, embedding |-> embedding]

\* mutant: a chunk with an all-zero embedding yields no entry either
SkippedChunk_ZeroVector(query, chunk) ==
    \/ chunk.type # "object"
    \/ Falsy(chunk.embedding)
    \/ ~IsArray(chunk.embedding)
    \/ cosineSimilarity(query, chunk.embedding).threw
    \/ \A k \in DOMAIN chunk.embedding.a : chunk.embedding.a[k] = Num(0)

\* line 1012 and the catch of line 1024: the chunk yields no entry
SkippedChunk(query, chunk) ==
    \/ chunk.type # "object"
    \/ Falsy(chunk.embedding)
    \/ ~IsArray(chunk.embedding)
    \/ cosineSimilarity(query, chunk.embedding).threw

\* lines 1009-1030: one entry per chunk that is not skipped, in input order
\* (the similarity of two integer vectors is never NaN, so the NaN filter
\* of line 1030 drops nothing more)
RECURSIVE Similarities(_, _, _)
Similarities(query, chunkList, k) ==
    IF k = 0 THEN <<>>
    ELSE Similarities(query, chunkList, k - 1) \o
         ( IF SkippedChunk(query, chunkList[k]) THEN <<>>
           ELSE << [index |-> k - 1, chunk |-> chunkList[k],
                    similarity |-> cosineSimilarity(query, chunkList[k].embedding).value] >> )

\* mutant: the comparator is a.similarity - b.similarity
SortsBefore_Ascending(a, b) == FracLess(a.similarity, b.similarity)

\* (a, b) => b.similarity - a.similarity is negative: a goes before b
SortsBefore(a, b) == FracLess(b.similarity, a.similarity)

\* Array.prototype.sort is stable: an entry goes before the first entry of
\* the sorted prefix that it sorts before
RECURSIVE InsertSorted(_, _)
InsertSorted(sorted, x) ==
    IF sorted = <<>> THEN <<x>>
    ELSE IF SortsBefore(x, Head(sorted)) THEN <<x>> \o sorted
    ELSE <<Head(sorted)>> \o InsertSorted(Tail(sorted), x)

RECURSIVE SortEntries(_, _)
SortEntries(entries, k) ==
    IF k = 0 THEN <<>> ELSE InsertSorted(SortEntries(entries, k - 1), entries[k])

\* lines 1002-1005
EffectiveTopK(k) == IF ~IsNumber(k) \/ k.n < 1 THEN 3 ELSE k.n

\* .slice(0, topK)
Slice(entries, k) == SubSeq(entries, 1, Min2(k, Len(entries)))

\* lines 992-1043
findSimilarChunks(query, chunkList, k) ==
    IF Falsy(query) \/ ~IsArray(query) \/ Len(query.a) = 0 THEN <<>>
    ELSE IF ~IsArray(chunkList) \/ Len(chunkList.a) = 0 THEN <<>>
    ELSE LET similarities == Similarities(query, chunkList.a, Len(chunkList.a))
         IN  Slice(SortEntries(similarities, Len(similarities)), EffectiveTopK(k))

MaxChunks == 3

Vec(x, y) == Arr(<<Num(x), Num(y)>>)

Queries == {Vec(1, 0), Vec(0, 0), Arr(<<>>), Null}

ChunkValues ==
    { Chunk("object", "a", Vec(1, 0)),
      Chunk("object", "b", Vec(2, 0)),
      Chunk("object", "c", Vec(0, 1)),
      Chunk("object", "d", Vec(-1, 0)),
      Chunk("object", "e", Vec(4, 3)),
      Chunk("object", "z", Vec(0, 0)),
      Chunk("null", "", Null),
      Chunk("object", "m", Null),
      Chunk("object", "s", Str(<<"1,0">>)),
      Chunk("object", "l", Arr(<<Num(1)>>)),
      Chunk("object", "n", Arr(<<Num(1), Str(<<"NaN">>)>>)) }

ChunkLists ==
    {Arr(c) : c \in UNION {[1..n -> ChunkValues] : n \in 0..MaxChunks}} \cup {Null}

TopKs == {Num(0), Num(1), Num(2), Null}

SimIdle ==
    /\ queryEmbedding = Null
    /\ chunks = Null
    /\ topK = Null
    /\ spc = "idle"
    /\ sout = <<>>

FindSimilar ==
    /\ caller = "similar"
    /\ spc = "start"
    /\ spc' = "done"
    /\ sout' = findSimilarChunks(queryEmbedding, chunks, topK)
    /\ UNCHANGED <<caller, storeVars, queryEmbedding, chunks, topK, retryVars, embedVars, evalVars>>

(***************************************************************************)
(* Specifications                                                          *)
(***************************************************************************)
vars == <<caller, retryVars, embedVars, evalVars, simVars, storeVars>>

MaxTexts == 2

TextValues ==
    { Str(<<"resume", " ", "text">>), Str(<<"job", " ", "text">>),
      Str(<<>>), Str(<<" ">>), Null, Num(42) }

TextLists ==
    {Arr(t) : t \in UNION {[1..n -> TextValues] : n \in 0..MaxTexts}} \cup {Null}

\* retryWithBackoff around an arbitrary service call
InitRetry ==
    /\ caller = "retry"
    /\ rpc = "attempt" /\ ri = 0 /\ rlog = <<>> /\ rdelays = <<>> /\ rout = NoOutcome
    /\ svcCalls = 0
    /\ EmbedIdle /\ EvalIdle /\ SimIdle /\ StoreIdle

NextRetry == RetryInvoke \/ RetrySettle(MAX_RETRIES) \/ RetryWake(MAX_RETRIES)

SpecRetry == InitRetry /\ [][NextRetry]_vars

\* generateEmbeddings(texts)
InitEmbed ==
    /\ caller = "embed"
    /\ RetryIdle /\ svcCalls = 0
    /\ texts \in TextLists
    /\ tidx = 1 /\ embeddings = <<>> /\ epc = "loop" /\ eout = NoOutcome
    /\ EvalIdle /\ SimIdle /\ StoreIdle

NextEmbed ==
    \/ EmbedReject \/ EmbedSkip \/ EmbedBegin \/ EmbedCollect \/ EmbedReturn
    \/ RetryInvoke \/ RetrySettle(MAX_RETRIES) \/ RetryWake(MAX_RETRIES)

SpecEmbed == InitEmbed /\ [][NextEmbed]_vars

\* evaluateAllAnswers(questionsAndAnswers, resumeContext)
InitEval ==
    /\ caller = "eval"
    /\ RetryIdle /\ svcCalls = 0
    /\ EmbedIdle /\ SimIdle /\ StoreIdle
    /\ qa \in EvalInputs
    /\ vpc = "start" /\ verr = NoErr /\ vout = NoOutcome

NextEval ==
    \/ EvalInvalid \/ EvalBegin \/ EvalFail \/ EvalParse \/ EvalCatch
    \/ RetryInvoke \/ RetrySettle(MAX_RETRIES) \/ RetryWake(MAX_RETRIES)

SpecEval == InitEval /\ [][NextEval]_vars

\* findSimilarChunks(queryEmbedding, chunks, topK)
InitSimilar ==
    /\ caller = "similar"
    /\ RetryIdle /\ svcCalls = 0
    /\ EmbedIdle /\ EvalIdle /\ StoreIdle
    /\ queryEmbedding \in Queries
    /\ chunks \in ChunkLists
    /\ topK \in TopKs
    /\ spc = "start" /\ sout = <<>>

NextSimilar == FindSimilar

SpecSimilar == InitSimilar /\ [][NextSimilar]_vars

(***************************************************************************)
(* chunkText (pdfProcessor).  A text is the sequence of its words, a word  *)
(* being [len, gap]: its number of characters and the number of whitespace *)
(* characters that follow it (at least one between two words).  The empty  *)
(* sequence is the text without any word.                                  *)
(***************************************************************************)
MaxWords == 3

Texts ==
    UNION {[1..n -> {[len |-> l, gap |-> g] : l \in {10, 30, 60}, g \in {1, 60}}] :
             n \in 0..MaxWords}

\* words.join(' ').length
RECURSIVE CharLength(_)
CharLength(words) ==
    IF words = <<>> THEN 0
    ELSE Head(words).len + (IF Len(words) > 1 THEN 1 ELSE 0) + CharLength(Tail(words))

\* text.trim().length: the gap after the last word is trimmed away
RECURSIVE TrimmedLength(_)
TrimmedLength(text) ==
    IF text = <<>> THEN 0
    ELSE Head(text).len + (IF Len(text) > 1 THEN Head(text).gap ELSE 0)
         + TrimmedLength(Tail(text))

\* lines 21-27: the whitespace runs become single spaces and the text is
\* split; ''.split(' ') is one empty word.  A word keeps its position as id.
CleanedWords(text) ==
    IF text = <<>> THEN <<[id |-> 1, len |-> 0]>>
    ELSE [k \in 1..Len(text) |-> [id |-> k, len |-> text[k].len]]

\* lines 30-35 with every window kept
chunkText_KeepAll(text, wordsPerChunk) ==
    LET words == CleanedWords(text)
    IN  [j \in 1..((Len(words) + wordsPerChunk - 1) \div wordsPerChunk) |->
           SubSeq(words, (j - 1) * wordsPerChunk + 1, Min2(j * wordsPerChunk, Len(words)))]

\* lines 19-38: a chunk is kept as the sequence of its words
chunkText(text, wordsPerChunk) ==
    LET words == CleanedWords(text)
        windows == [j \in 1..((Len(words) + wordsPerChunk - 1) \div wordsPerChunk) |->
                      SubSeq(words, (j - 1) * wordsPerChunk + 1,
                             Min2(j * wordsPerChunk, Len(words)))]
    IN  SelectSeq(windows, LAMBDA chunk : CharLength(chunk) > 50)

\* chunkText(text, wordsPerChunk)
InitChunk ==
    /\ caller = "chunk"
    /\ RetryIdle /\ svcCalls = 0
    /\ EmbedIdle /\ EvalIdle /\ SimIdle
    /\ chunkIn \in {[text |-> t, wordsPerChunk |-> w, returned |-> FALSE] :
                      t \in Texts, w \in {1, 2, 500}}
    /\ chunkOut = <<>>
    /\ gen = <<>> /\ chat = <<>> /\ documents = {} /\ blobs = {}
    /\ uploads = <<>> /\ res = <<>>

ChunkText ==
    /\ caller = "chunk"
    /\ ~chunkIn.returned
    /\ chunkIn' = [chunkIn EXCEPT !.returned = TRUE]
    /\ chunkOut' = chunkText(chunkIn.text, chunkIn.wordsPerChunk)
    /\ UNCHANGED <<caller, retryVars, embedVars, evalVars, simVars,
                   gen, chat, documents, blobs, uploads, res>>

NextChunk == ChunkText

SpecChunk == InitChunk /\ [][NextChunk]_vars

\* evaluateAllAnswers(questionsAndAnswers, resumeContext) or
\* generateInterviewQuestions(jdText, numQuestions): the two operations
\* that wrap a text-generation call
InitGenerate ==
    \/ InitEval
    \/ /\ caller = "questions"
       /\ RetryIdle /\ svcCalls = 0
       /\ EmbedIdle /\ EvalIdle /\ SimIdle
       /\ gen \in [pc : {"start"},
                   jdText : {Str(<<"MERN", "stack", "developer">>), Str(<<" ">>), Null},
                   numQuestions : {Num(3), Num(1), Null},
                   out : {NoOutcome}]
       /\ chunkIn = <<>> /\ chunkOut = <<>>
       /\ chat = <<>> /\ documents = {} /\ blobs = {}
       /\ uploads = <<>> /\ res = <<>>

NextGenerate == NextEval \/ QuestionsInvalid \/ QuestionsBegin \/ QuestionsSettle

SpecGenerate == InitGenerate /\ [][NextGenerate]_vars

(***************************************************************************)
(* uploadDocument.  Every request r has a frame in `uploads`; the Document *)
(* it creates and the Cloudinary file it stores both get the id r.  A      *)
(* sessionId of 0 is the null of a global document.                        *)
(***************************************************************************)
MaxUploads == 2

\* the requests made: a good text (60 characters), a text of 30 characters,
\* a text of 80 characters of which 60 are one whitespace run, for owners,
\* sessions and types that share a key or not; "cv" is no document type
UploadInputs ==
    { [userId |-> u, sessionId |-> s, type |-> t, text |-> x] :
        u \in {"u1"}, s \in {0, 1}, t \in {"resume"},
        x \in { <<[len |-> 60, gap |-> 1]>>, <<[len |-> 30, gap |-> 1]>>,
                <<[len |-> 10, gap |-> 60], [len |-> 10, gap |-> 1]>> } }
    \cup { [userId |-> "u2", sessionId |-> 1, type |-> "resume", text |-> <<[len |-> 60, gap |-> 1]>>],
           [userId |-> "u1", sessionId |-> 1, type |-> "cv", text |-> <<[len |-> 60, gap |-> 1]>>] }

\* lines 84-125: the body is validated and Document.findOne(query) answers
UploadFind(r) ==
    /\ caller = "upload"
    /\ uploads[r].pc = "find"
    /\ LET f == uploads[r]
           found == {d \in documents : d.userId = f.userId /\ d.type = f.type
                                       /\ d.sessionId = f.sessionId}
       IN  IF f.type \notin {"resume", "jd"}
           THEN uploads' = [uploads EXCEPT ![r].pc = "done", ![r].status = 400]
           ELSE IF found = {}
           THEN uploads' = [uploads EXCEPT ![r].pc = "process"]
           ELSE \E d \in found :
                  uploads' = [uploads EXCEPT ![r].pc = "delete", ![r].existingDoc = d.id]
    /\ UNCHANGED <<caller, retryVars, embedVars, evalVars, simVars,
                   chunkIn, chunkOut, gen, chat, documents, blobs, res>>

\* lines 127-149: the old file is destroyed (a failure of that is only
\* logged) and the old document is deleted by its id
UploadDelete(r) ==
    /\ caller = "upload"
    /\ uploads[r].pc = "delete"
    /\ uploads' = [uploads EXCEPT ![r].pc = "process"]
    /\ documents' = {d \in documents : d.id # uploads[r].existingDoc}
    /\ \E destroyed \in BOOLEAN :
         blobs' = IF destroyed THEN blobs \ {uploads[r].existingDoc} ELSE blobs
    /\ UNCHANGED <<caller, retryVars, embedVars, evalVars, simVars,
                   chunkIn, chunkOut, gen, chat, res>>

\* lines 151-229: the file is stored, its text extracted, checked, chunked
\* and embedded; the stored file is destroyed when the text is rejected
UploadProcess(r) ==
    /\ caller = "upload"
    /\ uploads[r].pc = "process"
    /\ \E stored, extracted, destroyed \in BOOLEAN :
         LET text == uploads[r].text
             textChunks == chunkText(text, 500)
         IN  IF ~stored
             THEN /\ uploads' = [uploads EXCEPT ![r].pc = "done", ![r].status = 500]
                  /\ blobs' = blobs
             ELSE IF ~extracted
             THEN /\ uploads' = [uploads EXCEPT ![r].pc = "done", ![r].status = 500]
                  /\ blobs' = blobs \cup {r}
             ELSE IF TrimmedLength(text) < 50 \/ Len(textChunks) = 0
             THEN /\ uploads' = [uploads EXCEPT ![r].pc = "done", ![r].status = 400]
                  /\ blobs' = IF destroyed THEN blobs ELSE blobs \cup {r}
             ELSE /\ uploads' = [uploads EXCEPT ![r].pc = "create",
                                                ![r].embedded = Len(textChunks)]
                  /\ blobs' = blobs \cup {r}
    /\ UNCHANGED <<caller, retryVars, embedVars, evalVars, simVars,
                   chunkIn, chunkOut, gen, chat, documents, res>>

\* lines 232-286: Document.create(documentData), which can fail
UploadCreate(r) ==
    /\ caller = "upload"
    /\ uploads[r].pc = "create"
    /\ \E created \in BOOLEAN :
         IF created
         THEN /\ documents' = documents \cup
                    {[id |-> r, userId |-> uploads[r].userId,
                      sessionId |-> uploads[r].sessionId, type |-> uploads[r].type,
                      fileUrl |-> r, chunks |-> uploads[r].embedded]}
              /\ uploads' = [uploads EXCEPT ![r].pc = "done", ![r].status = 201]
         ELSE /\ documents' = documents
              /\ uploads' = [uploads EXCEPT ![r].pc = "done", ![r].status = 500]
    /\ UNCHANGED <<caller, retryVars, embedVars, evalVars, simVars,
                   chunkIn, chunkOut, gen, chat, blobs, res>>

\* MaxUploads requests on empty collections, their steps interleaved
InitUpload ==
    /\ caller = "upload"
    /\ RetryIdle /\ svcCalls = 0
    /\ EmbedIdle /\ EvalIdle /\ SimIdle
    /\ chunkIn = <<>> /\ chunkOut = <<>> /\ gen = <<>>
    /\ chat = <<>> /\ res = <<>>
    /\ documents = {} /\ blobs = {}
    /\ uploads \in [1..MaxUploads ->
                      {[userId |-> i.userId, sessionId |-> i.sessionId, type |-> i.type,
                        text |-> i.text, pc |-> "find", existingDoc |-> 0,
                        embedded |-> 0, status |-> 0] : i \in UploadInputs}]

NextUpload ==
    \E r \in 1..MaxUploads :
        UploadFind(r) \/ UploadDelete(r) \/ UploadProcess(r) \/ UploadCreate(r)

SpecUpload == InitUpload /\ [][NextUpload]_vars

(***************************************************************************)
(* The Chat model and the chat route handlers (chatController).  A session *)
(* is a record of the schema's fields plus `exists`, which is FALSE once   *)
(* the session was deleted.  The content of a message is a sequence of     *)
(* lines.  An aggregate score with its one decimal is kept in tenths       *)
(* (70 is 7.0); Null is undefined.  The handlers run one at a time.        *)
(***************************************************************************)
MaxSessions == 2

MaxRequests == 4

Message(role, content, score, relevanceScore, correctnessScore) ==
    [role |-> role, content |-> content, score |-> score,
     relevanceScore |-> relevanceScore, correctnessScore |-> correctnessScore]

\* mutant: the final score is the mean of the messages' `score` fields
calculateFinalScores_UsesScore(messages) ==
    LET scoredMessages == SelectSeq(messages, LAMBDA msg :
            msg.role = "assistant" /\ IsNumber(msg.relevanceScore)
            /\ IsNumber(msg.correctnessScore))
        RECURSIVE Total(_, _)
        Total(msgs, field) ==
            IF msgs = <<>> THEN 0 ELSE Head(msgs)[field].n + Total(Tail(msgs), field)
        Tenths(num, den) == Num((20 * num + den) \div (2 * den))
        n == Len(scoredMessages)
    IN  IF n = 0
        THEN [finalScore |-> Null, averageRelevance |-> Null, averageCorrectness |-> Null]
        ELSE [finalScore |-> Tenths(Total(scoredMessages, "score"), n),
              averageRelevance |-> Tenths(Total(scoredMessages, "relevanceScore"), n),
              averageCorrectness |-> Tenths(Total(scoredMessages, "correctnessScore"), n)]

\* part_003 lines 89-130.  Tenths(num, den) is parseFloat((num / den)
\* .toFixed(1)): toFixed rounds the double to the nearest tenth and a tie
\* up; for the integer totals of up to 9 scored messages the double
\* quotient rounds like the fraction num / den does.
calculateFinalScores(messages) ==
    LET scoredMessages == SelectSeq(messages, LAMBDA msg :
            msg.role = "assistant" /\ IsNumber(msg.relevanceScore)
            /\ IsNumber(msg.correctnessScore))
        RECURSIVE Total(_, _)
        Total(msgs, field) ==
            IF msgs = <<>> THEN 0 ELSE Head(msgs)[field].n + Total(Tail(msgs), field)
        Tenths(num, den) == Num((20 * num + den) \div (2 * den))
        n == Len(scoredMessages)
    IN  IF n = 0
        THEN [finalScore |-> Null, averageRelevance |-> Null, averageCorrectness |-> Null]
        ELSE [finalScore |-> Tenths(Total(scoredMessages, "relevanceScore")
                                    + Total(scoredMessages, "correctnessScore"), 2 * n),
              averageRelevance |-> Tenths(Total(scoredMessages, "relevanceScore"), n),
              averageCorrectness |-> Tenths(Total(scoredMessages, "correctnessScore"), n)]

\* mutant: every line with a text counts as a question
parseQuestions_EveryLine(text) ==
    LET lines == SelectSeq(text, LAMBDA line : line.words # <<>>)
    IN  [k \in DOMAIN lines |-> [number |-> lines[k].num, text |-> lines[k].words]]

\* lines 192-211: the lines "N. text" with a text
parseQuestions(text) ==
    LET lines == SelectSeq(text, LAMBDA line : line.num > 0 /\ line.words # <<>>)
    IN  [k \in DOMAIN lines |-> [number |-> lines[k].num, text |-> lines[k].words]]

\* lines 214-248.  The answers text is kept as the pieces that
\* split(/^\d+\.\s*/gm) cuts it into: Line(0, w) is the text before the
\* first "N." and Line(n, w) the text that follows the marker "n.".  The
\* result <<>> is null.
parseAnswers(text, expectedCount) ==
    LET potentialAnswers == SelectSeq(text, LAMBDA piece : piece.words # <<>>)
    IN  IF Len(potentialAnswers) >= expectedCount
        THEN [i \in 1..expectedCount |-> [number |-> i, text |-> potentialAnswers[i].words]]
        ELSE <<>>

\* what evaluateAllAnswers(questionsAndAnswers, resumeContext) is made to
\* return here: the parse of an answer with one full block per pair, the
\* parse of an answer with a single block ("Relevance: 15", "Correctness:
\* 0"), and the fallback for a generation call that failed
evaluateAllAnswers(questionsAndAnswers) ==
    { ParseEvaluations(QuestionBlocks(ResponseText(<<>>,
          [k \in DOMAIN questionsAndAnswers |->
              <<Ws, Rel(8), Ws, Cor(6), Ws, Ovr(7), Ws, Fb, Ws, Word("Good"), Ws>>], FALSE)),
          Len(questionsAndAnswers)),
      ParseEvaluations(QuestionBlocks(ResponseText(<<>>, <<<<Ws, Rel(15), Ws, Cor(0), Ws>>>>, FALSE)),
          Len(questionsAndAnswers)),
      FallbackEvaluations(questionsAndAnswers, Err(2, 503, 0, <<"Service", "Unavailable">>)) }

\* lines 20-65: createSession
CreateSession(u, numQuestions) ==
    /\ caller = "chat"
    /\ res.n < MaxRequests
    /\ Len(chat) < MaxSessions
    /\ LET valid == numQuestions.type = "number" /\ numQuestions.n \in 2..10
       IN  /\ chat' = IF valid
                      THEN Append(chat, [exists |-> TRUE, userId |-> u,
                                         totalQuestions |-> numQuestions.n,
                                         messages |-> <<>>, isCompleted |-> FALSE,
                                         finalScore |-> Null, averageRelevance |-> Null,
                                         averageCorrectness |-> Null])
                      ELSE chat
           /\ res' = [n |-> res.n + 1, op |-> "create", sid |-> Len(chat'),
                      status |-> IF valid THEN 201 ELSE 400, body |-> <<>>,
                      wasCompleted |-> FALSE]
    /\ UNCHANGED <<caller, retryVars, embedVars, evalVars, simVars,
                   chunkIn, chunkOut, gen, documents, blobs, uploads>>

\* mutant: the generated questions are appended to the transcript
GenerateQuestions_Append(u, s, generated) ==
    /\ caller = "chat"
    /\ res.n < MaxRequests
    /\ s \in DOMAIN chat /\ chat[s].exists /\ chat[s].userId = u /\ generated.ok
    /\ chat' = [chat EXCEPT ![s].messages =
                   Append(@, Message("assistant", generated.val, Null, Null, Null))]
    /\ res' = [n |-> res.n + 1, op |-> "generate", sid |-> s, status |-> 200,
               body |-> generated.val, wasCompleted |-> chat[s].isCompleted]
    /\ UNCHANGED <<caller, retryVars, embedVars, evalVars, simVars,
                   chunkIn, chunkOut, gen, documents, blobs, uploads>>

\* lines 71-188: generateQuestions; `generated` is what
\* generateInterviewQuestions settles to.  A stored chunk has more than 50
\* characters, so the check of line 122 passes.
GenerateQuestions(u, s, generated) ==
    /\ caller = "chat"
    /\ res.n < MaxRequests
    /\ LET found == s \in DOMAIN chat /\ chat[s].exists /\ chat[s].userId = u
           types == {d.type : d \in {e \in documents : e.userId = u /\ e.sessionId = s}}
           status == IF ~found THEN 404
                     ELSE IF ~({"resume", "jd"} \subseteq types) THEN 400
                     ELSE IF ~generated.ok THEN 500
                     ELSE 200
       IN  /\ chat' = IF status = 200
                      THEN [chat EXCEPT
                              ![s].messages = <<Message("assistant", generated.val, Null, Null, Null)>>,
                              ![s].isCompleted = FALSE,
                              ![s].finalScore = Null,
                              ![s].averageRelevance = Null,
                              ![s].averageCorrectness = Null]
                      ELSE chat
           /\ res' = [n |-> res.n + 1, op |-> "generate", sid |-> s, status |-> status,
                      body |-> IF status = 200 THEN generated.val ELSE <<>>,
                      wasCompleted |-> found /\ chat[s].isCompleted]
    /\ UNCHANGED <<caller, retryVars, embedVars, evalVars, simVars,
                   chunkIn, chunkOut, gen, documents, blobs, uploads>>

\* mutant: the session is marked completed before the request fails
SubmitAnswers_CompletesFirst(u, s, answersText, embedded) ==
    /\ caller = "chat"
    /\ res.n < MaxRequests
    /\ s \in DOMAIN chat /\ chat[s].exists /\ chat[s].userId = u /\ ~embedded
    /\ chat' = [chat EXCEPT ![s].isCompleted = TRUE]
    /\ res' = [n |-> res.n + 1, op |-> "submit", sid |-> s, status |-> 500,
               body |-> answersText, wasCompleted |-> chat[s].isCompleted]
    /\ UNCHANGED <<caller, retryVars, embedVars, evalVars, simVars,
                   chunkIn, chunkOut, gen, documents, blobs, uploads>>

\* lines 254-382: submitAnswers; `embedded` tells whether generateEmbedding
\* returned a vector for the combined answers
SubmitAnswers(u, s, answersText, embedded) ==
    /\ caller = "chat"
    /\ res.n < MaxRequests
    /\ LET found == s \in DOMAIN chat /\ chat[s].exists /\ chat[s].userId = u
           questions == IF found /\ chat[s].messages # <<>>
                        THEN parseQuestions(chat[s].messages[1].content) ELSE <<>>
           answers == parseAnswers(answersText, Len(questions))
           status == IF answersText = <<>> THEN 400
                     ELSE IF ~found THEN 404
                     ELSE IF Len(questions) = 0 THEN 400
                     ELSE IF answers = <<>> THEN 400
                     ELSE IF ~\E d \in documents :
                                d.userId = u /\ d.sessionId = s /\ d.type = "resume"
                     THEN 400
                     ELSE IF ~embedded THEN 500
                     ELSE 200
           questionsAndAnswers ==
               [k \in DOMAIN questions |->
                  Entry("object", Str(questions[k].text), Str(answers[k].text))]
       IN  /\ IF status = 200
              THEN \E evaluations \in evaluateAllAnswers(questionsAndAnswers) :
                     LET messages ==
                           chat[s].messages
                           \o <<Message("user", answersText, Null, Null, Null)>>
                           \o [idx \in DOMAIN evaluations |->
                                 Message("assistant",
                                         <<Line(idx, <<"Feedback:">> \o evaluations[idx].feedback)>>,
                                         Null,
                                         Num(evaluations[idx].relevanceScore),
                                         Num(evaluations[idx].correctnessScore))]
                         scores == calculateFinalScores(messages)
                     IN  chat' = [chat EXCEPT
                                    ![s].messages = messages,
                                    ![s].isCompleted = TRUE,
                                    ![s].finalScore = scores.finalScore,
                                    ![s].averageRelevance = scores.averageRelevance,
                                    ![s].averageCorrectness = scores.averageCorrectness]
              ELSE chat' = chat
           /\ res' = [n |-> res.n + 1, op |-> "submit", sid |-> s, status |-> status,
                      body |-> answersText, wasCompleted |-> found /\ chat[s].isCompleted]
    /\ UNCHANGED <<caller, retryVars, embedVars, evalVars, simVars,
                   chunkIn, chunkOut, gen, documents, blobs, uploads>>

\* mutant: every document of the owner is deleted with the session
DeleteChatSession_AllOfOwner(u, s, deleted) ==
    /\ caller = "chat"
    /\ res.n < MaxRequests
    /\ s \in DOMAIN chat /\ chat[s].exists /\ chat[s].userId = u /\ deleted
    /\ chat' = [chat EXCEPT ![s].exists = FALSE]
    /\ documents' = {d \in documents : d.userId # u}
    /\ res' = [n |-> res.n + 1, op |-> "delete", sid |-> s, status |-> 200,
               body |-> <<>>, wasCompleted |-> chat[s].isCompleted]
    /\ UNCHANGED <<caller, retryVars, embedVars, evalVars, simVars,
                   chunkIn, chunkOut, gen, blobs, uploads>>

\* lines 488-535: deleteChatSession; `deleted` tells whether
\* Document.deleteMany succeeded
DeleteChatSession(u, s, deleted) ==
    /\ caller = "chat"
    /\ res.n < MaxRequests
    /\ LET found == s \in DOMAIN chat /\ chat[s].exists /\ chat[s].userId = u
       IN  /\ chat' = IF found THEN [chat EXCEPT ![s].exists = FALSE] ELSE chat
           /\ documents' = IF found /\ deleted
                           THEN {d \in documents : ~(d.userId = u /\ d.sessionId = s)}
                           ELSE documents
           /\ res' = [n |-> res.n + 1, op |-> "delete", sid |-> s,
                      status |-> IF ~found THEN 404 ELSE IF deleted THEN 200 ELSE 500,
                      body |-> <<>>, wasCompleted |-> found /\ chat[s].isCompleted]
    /\ UNCHANGED <<caller, retryVars, embedVars, evalVars, simVars,
                   chunkIn, chunkOut, gen, blobs, uploads>>

\* no session yet; the Document collection is empty or holds the documents
\* uploaded for the session ids 1 and 2 (uploadDocument takes any
\* well-formed sessionId) and a global resume
InitChat ==
    /\ caller = "chat"
    /\ RetryIdle /\ svcCalls = 0
    /\ EmbedIdle /\ EvalIdle /\ SimIdle
    /\ chunkIn = <<>> /\ chunkOut = <<>> /\ gen = <<>> /\ uploads = <<>>
    /\ chat = <<>>
    /\ res = [n |-> 0, op |-> "", sid |-> 0, status |-> 0, body |-> <<>>,
              wasCompleted |-> FALSE]
    /\ documents \in
         { {},
           { [id |-> 10 * k.s + k.i, userId |-> k.u, sessionId |-> k.s, type |-> k.t,
              fileUrl |-> 10 * k.s + k.i, chunks |-> 1] :
               k \in { [i |-> 1, u |-> "u1", s |-> 1, t |-> "resume"],
                       [i |-> 2, u |-> "u1", s |-> 1, t |-> "jd"],
                       [i |-> 3, u |-> "u2", s |-> 1, t |-> "resume"],
                       [i |-> 1, u |-> "u2", s |-> 2, t |-> "resume"],
                       [i |-> 2, u |-> "u2", s |-> 2, t |-> "jd"],
                       [i |-> 1, u |-> "u1", s |-> 0, t |-> "resume"] } } }
    /\ blobs = {d.fileUrl : d \in documents}

NextChat ==
    \E u \in {"u1", "u2"}, s \in 1..MaxSessions :
        \/ \E numQuestions \in {Num(3), Num(1)} : CreateSession(u, numQuestions)
        \/ \E generated \in {Resolved(TrimText(t)) : t \in GeneratedTexts}
                            \cup {Rejected(UserFacingError(Err(2, 429, 0, <<"Too", "Many", "Requests">>)))} :
             GenerateQuestions(u, s, generated)
        \/ \E answersText \in
                { <<>>,
                  <<Line(1, <<"Hooks", "are", "functions">>)>>,
                  <<Line(1, <<"Hooks", "are", "functions">>), Line(2, <<"We", "talked">>)>>,
                  <<Line(0, <<"My", "answers:">>), Line(1, <<"State">>), Line(2, <<>>),
                    Line(3, <<"Calmly">>)>> },
              embedded \in BOOLEAN :
             SubmitAnswers(u, s, answersText, embedded)
        \/ \E deleted \in BOOLEAN : DeleteChatSession(u, s, deleted)

SpecChat == InitChat /\ [][NextChat]_vars

MaxMessages == 3

\* the transcripts calculateFinalScores is run on: evaluation messages, one
\* of them with a model-provided overall `score`, a message with one score
\* missing, a user message carrying scores, and the question message
ScoreMessages ==
    { Message("assistant", <<Line(1, <<"Feedback:", "Good">>)>>, Null, Num(8), Num(6)),
      Message("assistant", <<Line(2, <<"Feedback:", "Good">>)>>, Num(10), Num(6), Num(8)),
      Message("assistant", <<Line(3, <<"Feedback:", "Vague">>)>>, Null, Num(7), Num(10)),
      Message("assistant", <<Line(4, <<"Feedback:", "Partial">>)>>, Null, Null, Num(9)),
      Message("user", <<Line(1, <<"Hooks", "are", "functions">>)>>, Null, Num(9), Num(9)),
      Message("assistant", <<Line(1, <<"Explain", "React", "hooks">>)>>, Null, Null, Null) }

InitScores ==
    /\ caller = "scores"
    /\ RetryIdle /\ svcCalls = 0
    /\ EmbedIdle /\ EvalIdle /\ SimIdle
    /\ chunkIn = <<>> /\ chunkOut = <<>> /\ gen = <<>> /\ uploads = <<>>
    /\ documents = {} /\ blobs = {}
    /\ res = [n |-> 0, op |-> "", sid |-> 1, status |-> 0, body |-> <<>>,
              wasCompleted |-> FALSE]
    /\ \E len \in 0..MaxMessages :
         \E messages \in [1..len -> ScoreMessages] :
             chat = << [exists |-> TRUE, userId |-> "u1", totalQuestions |-> 3,
                        messages |-> messages, isCompleted |-> TRUE,
                        finalScore |-> Null, averageRelevance |-> Null,
                        averageCorrectness |-> Null] >>

\* part_003 lines 89-130 as a method call on the session
CalculateFinalScores ==
    /\ caller = "scores"
    /\ res.n = 0
    /\ LET scores == calculateFinalScores(chat[1].messages)
       IN  chat' = [chat EXCEPT ![1].finalScore = scores.finalScore,
                                ![1].averageRelevance = scores.averageRelevance,
                                ![1].averageCorrectness = scores.averageCorrectness]
    /\ res' = [res EXCEPT !.n = 1, !.op = "scores"]
    /\ UNCHANGED <<caller, retryVars, embedVars, evalVars, simVars,
                   chunkIn, chunkOut, gen, documents, blobs, uploads>>

SpecScores == InitScores /\ [][CalculateFinalScores]_vars

(***************************************************************************)
(* Properties                                                              *)
(***************************************************************************)
AllZero(v) == \A k \in DOMAIN v : v[k] = 0

NonEmptyList(v) == v.type = "array" /\ Len(v.a) > 0

\* an input item that is no non-blank string
BadItem(t) == t.type # "string" \/ \A k \in DOMAIN t.s : t.s[k] = " "

\* the value returned for a non-empty list
C1_Returned ==
    (epc = "done" /\ NonEmptyList(texts)) =>
        /\ eout.ok
        /\ Len(eout.val) = Len(texts.a)
        /\ \A i \in 1..Len(texts.a) :
             /\ Len(eout.val[i]) = 768
             /\ BadItem(texts.a[i]) => AllZero(eout.val[i])
             /\ ~BadItem(texts.a[i]) =>
                  \/ AllZero(eout.val[i])
                  \/ \A k \in 1..768 : eout.val[i][k] = (IF texts.a[i].s[1] = "resume" THEN 1 ELSE 2)

\* one vector of dimension 768 per item passed
C1_InStep ==
    (epc \in {"loop", "retrying"} /\ NonEmptyList(texts)) =>
        /\ Len(embeddings) = tidx - 1
        /\ \A i \in 1..Len(embeddings) : Len(embeddings[i]) = 768

\* the step that follows the failure of an item's call
C1_FailedItem ==
    (epc = "retrying" /\ rpc = "thrown") =>
        /\ epc' = "loop"
        /\ Len(embeddings') = Len(embeddings) + 1
        /\ Len(embeddings'[tidx]) = 768
        /\ AllZero(embeddings'[tidx])
        /\ SubSeq(embeddings', 1, Len(embeddings)) = embeddings

\* C1 (SpecEmbed): for a non-empty list texts, generateEmbeddings returns
\* exactly Len(texts) vectors of dimension 768; the vector at position i is
\* all zero when item i is empty or no string, and otherwise it is the
\* service's vector for item i or all zero; the loop has pushed one vector
\* per item passed; and when the call for an item ends in failure, the
\* all-zero vector is what is pushed for it and the batch goes on.
C1_EmbedBatchTotal == [](C1_Returned /\ C1_InStep) /\ [][C1_FailedItem]_vars

\* C1 witness: a two-item batch has returned; the call for the first item,
\* a proper string, failed (its vector is all zero) and the second item
\* has the service's vector.
C1_Witness ==
    /\ epc = "done" /\ NonEmptyList(texts) /\ Len(texts.a) = 2
    /\ ~BadItem(texts.a[1]) /\ ~BadItem(texts.a[2])
    /\ eout.ok /\ AllZero(eout.val[1]) /\ ~AllZero(eout.val[2])
    /\ svcCalls > 2

ScoreInRange(x) == x \in 1..10

\* C2 (SpecEval): for a non-empty list of pairs, whatever the generation
\* service did, evaluateAllAnswers returns exactly Len(qaPairs) entries and
\* every relevanceScore, correctnessScore and overall score is an integer
\* in 1..10.
C2_EvaluateAllTotal ==
    (vpc = "done" /\ NonEmptyList(qa)) =>
        /\ vout.ok
        /\ Len(vout.val) = Len(qa.a)
        /\ \A i \in 1..Len(vout.val) :
             /\ ScoreInRange(vout.val[i].relevanceScore)
             /\ ScoreInRange(vout.val[i].correctnessScore)
             /\ ScoreInRange(vout.val[i].score)

\* C2 witness: two pairs were evaluated from an answer whose first block
\* carried "Relevance: 15" and "Correctness: 0" and whose second block was
\* missing.
C2_Witness ==
    /\ vpc = "done" /\ NonEmptyList(qa) /\ Len(qa.a) = 2
    /\ rpc = "returned"
    /\ \E k \in DOMAIN rout.val : rout.val[k].k = "rel" /\ rout.val[k].n = 15
    /\ vout.ok
    /\ vout.val[1].relevanceScore = 10 /\ vout.val[1].correctnessScore = 1
    /\ vout.val[2].score = 1

\* C3 (SpecRetry): retryWithBackoff makes at most 3 calls of the wrapped
\* operation, one service call each, and makes none after a success.
C3_AtMostThreeAttempts ==
    /\ svcCalls <= 3
    /\ Len(rlog) <= 3
    /\ Len(rlog) <= svcCalls
    /\ \A k \in 1..Len(rlog) : rlog[k].ok => (k = Len(rlog) /\ rpc = "returned" /\ svcCalls = k)

\* C3 witness: three calls were made and the third one succeeded.
C3_Witness == rpc = "returned" /\ svcCalls = 3 /\ Len(rlog) = 3 /\ rlog[3].ok

\* the failure carries status 429 or 503, or its message tells of overload
\* or of rate limiting
TransientSignal(e) ==
    \/ e.status \in {429, 503}
    \/ e.respStatus \in {429, 503}
    \/ \E k \in DOMAIN e.message : e.message[k] = "overloaded"
    \/ \E k \in 1..(Len(e.message) - 1) : e.message[k] = "rate" /\ e.message[k + 1] = "limit"

\* C4 (SpecRetry): an attempt that is followed by another one failed with a
\* transient signal; after a failure without one the wrapper has thrown:
\* it neither sleeps nor calls again, however many attempts remain.
C4_RetryOnlyTransient ==
    /\ \A k \in 1..(Len(rlog) - 1) : ~rlog[k].ok /\ TransientSignal(rlog[k].err)
    /\ \A k \in 1..Len(rlog) :
         (~rlog[k].ok /\ ~TransientSignal(rlog[k].err)) =>
             (k = Len(rlog) /\ rpc = "thrown" /\ svcCalls = k)

\* C4 witness: the first attempt failed with status 500 and the wrapper
\* threw with two attempts left.
C4_Witness ==
    /\ rpc = "thrown" /\ Len(rlog) = 1 /\ svcCalls = 1
    /\ rlog[1].err.status = 500 /\ ~TransientSignal(rlog[1].err)

\* C5 (SpecRetry), the claim as stated: the delay that precedes attempt i
\* (0-indexed) is 1000ms * 2^i, and over the allowed attempts the delays
\* are 1s, 2s, 4s.
C5_DelayBeforeAttempt ==
    /\ \A k \in DOMAIN rdelays : rdelays[k].ms = 1000 * Pow2(rdelays[k].before)
    /\ (rpc = "thrown" /\ Len(rlog) = 3) =>
           [k \in DOMAIN rdelays |-> rdelays[k].ms] = <<1000, 2000, 4000>>

\* C6 (SpecRetry): when all three attempts failed with a transient error,
\* the error thrown to the caller is the error of the third attempt, the
\* same value.
C6_LastErrorUnchanged ==
    (rpc = "thrown" /\ Len(rlog) = 3 /\ \A k \in 1..3 : TransientSignal(rlog[k].err)) =>
        /\ ~rout.ok
        /\ rout.err = rlog[3].err
        /\ rout.err.at = 2

\* C6 witness: three transient failures, the last one different from the
\* first, and the wrapper has thrown.
C6_Witness ==
    /\ rpc = "thrown" /\ Len(rlog) = 3
    /\ \A k \in 1..3 : ~rlog[k].ok /\ TransientSignal(rlog[k].err)
    /\ rlog[3].err.status = 429 /\ rlog[1].err.status = 503

AllOnes(e) == e.score = 1 /\ e.relevanceScore = 1 /\ e.correctnessScore = 1

\* the feedback contains the message, word for word
Contains(feedback, message) ==
    \E k \in 0..(Len(feedback) - Len(message)) :
        SubSeq(feedback, k + 1, k + Len(message)) = message

\* C7 (SpecEval): when the generation call has failed for good (after three
\* transient failures, or at once on a failure that is not retried),
\* evaluateAllAnswers returns one entry per input pair, in input order
\* (entry k names question k), each 1/1/1 with a feedback that contains
\* the error's message.
C7_FallbackOnGenerationFailure ==
    (vpc = "done" /\ rpc = "thrown") =>
        /\ vout.ok
        /\ Len(vout.val) = Len(qa.a)
        /\ \A k \in 1..Len(vout.val) :
             /\ AllOnes(vout.val[k])
             /\ Contains(vout.val[k].feedback, rlog[Len(rlog)].err.message)
             /\ vout.val[k].feedback[Len(vout.val[k].feedback)] = ToString(k)

\* C7 witness: the generation call failed three times and two fallback
\* entries were returned.
C7_Witness ==
    /\ vpc = "done" /\ rpc = "thrown" /\ Len(rlog) = 3 /\ svcCalls = 3
    /\ vout.ok /\ Len(vout.val) = 2
    /\ AllOnes(vout.val[2])

\* the answer is made of headers and whitespace only, with a header
HeadersOnly(t) ==
    /\ \E k \in DOMAIN t : t[k].k = "hdr"
    /\ \A k \in DOMAIN t : t[k].k \in {"hdr", "ws"}

\* C8 (SpecEval), the claim as stated: when the service returned a text
\* that is not blank and holds no question block, evaluateAllAnswers fails
\* and returns no result list.
C8_ParseErrorReachesCaller ==
    (vpc = "done" /\ rpc = "returned" /\ HeadersOnly(rout.val)) => ~vout.ok

\* C8 (SpecEval), amended: in that case the parse error is caught inside
\* evaluateAllAnswers, which returns one fallback entry per input pair,
\* each 1/1/1 with a feedback that contains the parse error's message.
C8_ParseErrorFallsBack ==
    (vpc = "done" /\ rpc = "returned" /\ HeadersOnly(rout.val)) =>
        /\ vout.ok
        /\ Len(vout.val) = Len(qa.a)
        /\ \A k \in 1..Len(vout.val) :
             /\ AllOnes(vout.val[k])
             /\ Contains(vout.val[k].feedback,
                         <<"Failed", "to", "parse", "evaluation", "response", "format.">>)

\* C8 witness: the service answered two headers with blank bodies for two
\* pairs and the call is over.
C8_Witness ==
    /\ vpc = "done" /\ rpc = "returned" /\ HeadersOnly(rout.val)
    /\ Cardinality({k \in DOMAIN rout.val : rout.val[k].k = "hdr"}) = 2
    /\ Len(qa.a) = 2

\* the argument is no list, is empty, or has an entry without a string
\* question or a string answer
RejectedInput(v) ==
    \/ v.type # "array"
    \/ Len(v.a) = 0
    \/ \E k \in DOMAIN v.a :
         \/ v.a[k].type = "null"
         \/ v.a[k].question.type # "string"
         \/ v.a[k].answer.type # "string"

ValidationMessage(m) ==
    \/ Contains(m, <<"Must", "provide", "a", "non-empty", "array">>)
    \/ Contains(m, <<"Invalid", "format", "for", "question/answer", "pair">>)

UsableChunk(c, q) ==
    /\ c.type = "object"
    /\ c.embedding.type = "array"
    /\ Len(c.embedding.a) = Len(q.a)
    /\ \A k \in DOMAIN c.embedding.a : c.embedding.a[k].type = "number"

ValidCount(cs, q) == Cardinality({k \in DOMAIN cs.a : UsableChunk(cs.a[k], q)})

SimilarCase == spc = "done" /\ NonEmptyList(queryEmbedding) /\ NonEmptyList(chunks)

\* the entries are in non-increasing order of similarity, equal ones in
\* input order, each with the index and the chunk of a usable input chunk
RankedEntries ==
    /\ \A i \in 1..Len(sout) :
         /\ sout[i].index \in 0..(Len(chunks.a) - 1)
         /\ sout[i].chunk = chunks.a[sout[i].index + 1]
         /\ UsableChunk(sout[i].chunk, queryEmbedding)
    /\ \A i \in 1..Len(sout) : \A j \in (i + 1)..Len(sout) :
         /\ sout[i].similarity.num * sout[j].similarity.den
              >= sout[j].similarity.num * sout[i].similarity.den
         /\ (sout[i].similarity.num * sout[j].similarity.den
              = sout[j].similarity.num * sout[i].similarity.den) => sout[i].index < sout[j].index

\* C10 (SpecSimilar), the claim as stated: for a non-empty query and a
\* non-empty chunk list, findSimilarChunks returns exactly
\* min(topK, validCount) ranked entries.
C10_MinTopKEntries ==
    (SimilarCase /\ topK.type = "number") =>
        /\ Len(sout) = Min2(topK.n, ValidCount(chunks, queryEmbedding))
        /\ RankedEntries

\* C10 (SpecSimilar), amended: it returns exactly min(k, validCount) ranked
\* entries, where k is topK when topK is an integer >= 1 and 3 otherwise.
C10_MinEffectiveTopKEntries ==
    SimilarCase =>
        /\ Len(sout) = Min2(IF topK.type = "number" /\ topK.n >= 1 THEN topK.n ELSE 3,
                            ValidCount(chunks, queryEmbedding))
        /\ RankedEntries

\* C10 witness: of three chunks the second has no embedding and the other
\* two are equally similar to the query; both come back, in input order.
C10_Witness ==
    /\ SimilarCase /\ Len(chunks.a) = 3 /\ topK = Num(2)
    /\ chunks.a[2].embedding.type = "null"
    /\ Len(sout) = 2
    /\ sout[1].index = 0 /\ sout[2].index = 2
    /\ sout[1].similarity = sout[2].similarity
    /\ sout[1].chunk # sout[2].chunk

\* the words of the input that the chunks hold, in the order of the chunks
ChunkedIds == [k \in DOMAIN Flatten(chunkOut) |-> Flatten(chunkOut)[k].id]

\* the windows of the cleaned word sequence, as lists of word positions
WindowOf(j) ==
    {k \in 1..Len(chunkIn.text) :
       (j - 1) * chunkIn.wordsPerChunk < k /\ k <= j * chunkIn.wordsPerChunk}

\* C17 (SpecChunk), the claim as stated: for a text with at least one word,
\* the chunks hold the words 1..m of the input in order, every chunk has at
\* most wordsPerChunk words, and what is missing (m+1..n) is nothing or the
\* final window alone.
C17_OnlyTailDiscarded ==
    (chunkIn.returned /\ chunkIn.text # <<>>) =>
        LET n == Len(chunkIn.text)
            m == Len(ChunkedIds)
        IN  /\ ChunkedIds = [k \in 1..m |-> k]
            /\ \A c \in DOMAIN chunkOut : Len(chunkOut[c]) <= chunkIn.wordsPerChunk
            /\ m < n => n - m <= chunkIn.wordsPerChunk /\ m % chunkIn.wordsPerChunk = 0

\* C17 (SpecChunk), amended: every chunk is one whole window of the word
\* sequence and longer than 50 characters, the chunks are in window order
\* (so no word is in two chunks and the order is kept), every window that
\* is missing has at most 50 characters, wherever it lies, and the word
\* count of the chunks is the input's minus that of the missing windows.
C17_ShortWindowsDiscarded ==
    (chunkIn.returned /\ chunkIn.text # <<>>) =>
        LET n == Len(chunkIn.text)
            w == chunkIn.wordsPerChunk
            last == (n + w - 1) \div w
            WordsOf(c) == {chunkOut[c][k].id : k \in DOMAIN chunkOut[c]}
            kept == {j \in 1..last : \E c \in DOMAIN chunkOut : WordsOf(c) = WindowOf(j)}
        IN  /\ \A c \in DOMAIN chunkOut :
                 /\ \E j \in 1..last : WordsOf(c) = WindowOf(j)
                 /\ Len(chunkOut[c]) <= w
                 /\ CharLength(chunkOut[c]) > 50
                 /\ \A k \in DOMAIN chunkOut[c] :
                      chunkOut[c][k].len = chunkIn.text[chunkOut[c][k].id].len
            /\ \A k \in DOMAIN ChunkedIds : k > 1 => ChunkedIds[k - 1] < ChunkedIds[k]
            /\ \A j \in (1..last) \ kept :
                 CharLength(SubSeq(CleanedWords(chunkIn.text), (j - 1) * w + 1, Min2(j * w, n))) <= 50
            /\ Len(ChunkedIds) = n - Cardinality(UNION {WindowOf(j) : j \in (1..last) \ kept})

\* C17 witness: three one-word windows, of which the middle one (10
\* characters) is missing and the other two were kept.
C17_Witness ==
    /\ chunkIn.returned /\ chunkIn.wordsPerChunk = 1
    /\ Len(chunkIn.text) = 3
    /\ ChunkedIds = <<1, 3>>

\* the error of an answer that was empty because the content was blocked
\* (finish reason SAFETY) or truncated (finish reason MAX_TOKENS)
BlockedOrTruncated(e) ==
    \/ Contains(e.message, <<"safety", "filters.">>)
    \/ Contains(e.message, <<"exceeded", "maximum">>)

\* C18 (SpecGenerate): in generateInterviewQuestions and in
\* evaluateAllAnswers a call that ended with the blocked or truncated
\* outcome is the last call of the operation: retryWithBackoff rethrows
\* that error at once and no call follows, so that an operation whose first
\* answer is blocked or truncated makes exactly one service call.
C18_BlockedNeverRetried ==
    \A k \in DOMAIN rlog :
        (~rlog[k].ok /\ BlockedOrTruncated(rlog[k].err)) =>
            /\ k = Len(rlog)
            /\ svcCalls = k
            /\ rpc = "thrown"
            /\ rout.err = rlog[k].err

\* C18 witness: generateInterviewQuestions is over after a single service
\* call whose answer was empty with finish reason MAX_TOKENS.
C18_Witness ==
    /\ caller = "questions" /\ gen.pc = "done"
    /\ svcCalls = 1 /\ Len(rlog) = 1
    /\ Contains(rlog[1].err.message, <<"exceeded", "maximum">>)
    /\ ~gen.out.ok

\* C19 (SpecEmbed): a service call is in flight only for the item the loop
\* is at, which is a non-blank string, and while the vectors of all the
\* items before it are already in place; a call is issued only when none
\* is in flight; the loop passes an item only when no attempt for it is
\* pending, and passes an empty or non-string item without any call.
C19_SequentialCalls ==
    /\ [](rpc \in {"attempt", "inflight", "sleeping"} =>
            /\ epc = "retrying"
            /\ Len(embeddings) = tidx - 1
            /\ ~BadItem(texts.a[tidx]))
    /\ [][/\ svcCalls' # svcCalls =>
               (svcCalls' = svcCalls + 1 /\ rpc # "inflight" /\ rpc' = "inflight"
                /\ tidx' = tidx)
          /\ tidx' # tidx =>
               /\ tidx' = tidx + 1
               /\ rpc \in {"idle", "returned", "thrown"}
               /\ svcCalls' = svcCalls
               /\ BadItem(texts.a[tidx]) => rpc = "idle"]_vars

\* C19 witness: the call for the second item is in flight after the first
\* item used up its three attempts.
C19_Witness ==
    /\ caller = "embed" /\ rpc = "inflight"
    /\ tidx = 2 /\ svcCalls = 4 /\ Len(embeddings) = 1

\* C20 (SpecEval): when the answer holds k question blocks with
\* 1 <= k < len(qaPairs), evaluateAllAnswers returns len(qaPairs) entries:
\* entry i <= k is what block i parses to and every entry after k is the
\* placeholder 1/1/1 whose feedback says the evaluation was missing.
C20_MissingBlocksPadded ==
    (vpc = "done" /\ rpc = "returned" /\ NonEmptyList(qa)) =>
        LET blocks == QuestionBlocks(rout.val)
        IN  (1 <= Len(blocks) /\ Len(blocks) < Len(qa.a)) =>
                /\ vout.ok
                /\ Len(vout.val) = Len(qa.a)
                /\ \A i \in 1..Len(blocks) : vout.val[i] = ParseBlock(blocks[i])
                /\ \A i \in (Len(blocks) + 1)..Len(qa.a) :
                     /\ AllOnes(vout.val[i])
                     /\ Contains(vout.val[i].feedback, <<"was", "missing">>)

\* C20 witness: two pairs, an answer with one block carrying "Relevance: 8",
\* and a result whose second entry is the placeholder.
C20_Witness ==
    /\ vpc = "done" /\ rpc = "returned" /\ NonEmptyList(qa) /\ Len(qa.a) = 2
    /\ Len(QuestionBlocks(rout.val)) = 1
    /\ vout.ok
    /\ vout.val[1].relevanceScore = 8
    /\ AllOnes(vout.val[2])

\* every upload request has been answered
UploadsDone == \A r \in DOMAIN uploads : uploads[r].pc = "done"

\* C13 (SpecUpload), the claim as stated: once every upload request has
\* completed, no two documents have the same owner, sessionId and type.
C13_OneDocumentPerKey ==
    UploadsDone =>
        \A d, e \in documents :
            (d.userId = e.userId /\ d.sessionId = e.sessionId /\ d.type = e.type) => d = e

\* the characters of the text between its first and its last word
RECURSIVE RawChars(_)
RawChars(text) ==
    IF text = <<>> THEN 0
    ELSE text[1].len + (IF Len(text) > 1 THEN text[1].gap ELSE 0) + RawChars(Tail(text))

\* the characters of the text once every whitespace run is one space
RECURSIVE CleanedChars(_)
CleanedChars(text) ==
    IF text = <<>> THEN 0
    ELSE text[1].len + (IF Len(text) > 1 THEN 1 ELSE 0) + CleanedChars(Tail(text))

\* C14 (SpecUpload): a request whose text has fewer than 50 characters
\* after trimming, or whose chunk list is empty (its only window has at most
\* 50 characters), never reaches generateEmbeddings or Document.create:
\* it creates no document and is answered 400 once its file was stored and
\* its text extracted (500 when one of these two failed).
C14_ShortTextRejected ==
    \A r \in DOMAIN uploads :
        (RawChars(uploads[r].text) < 50 \/ CleanedChars(uploads[r].text) <= 50) =>
            /\ uploads[r].embedded = 0
            /\ uploads[r].pc # "create"
            /\ \A d \in documents : d.id # r
            /\ uploads[r].status \in {0, 400, 500}
            /\ uploads[r].pc = "done" => uploads[r].status \in {400, 500}

\* C14 witness: a request whose text has 80 characters, 60 of them in one
\* whitespace run, was answered 400 while another request created its
\* document.
C14_Witness ==
    /\ UploadsDone
    /\ \E r \in DOMAIN uploads :
         /\ RawChars(uploads[r].text) = 80
         /\ uploads[r].status = 400 /\ uploads[r].type = "resume"
    /\ documents # {}


\* C12 (SpecChat): right after a successful generateQuestions, whatever the
\* session held before, the transcript is exactly one assistant message
\* holding the generated question text, isCompleted is false, and finalScore,
\* averageRelevance and averageCorrectness are unset.
C12_GenerateResetsSession ==
    (res.op = "generate" /\ res.status = 200) =>
        /\ Len(chat[res.sid].messages) = 1
        /\ chat[res.sid].messages[1].role = "assistant"
        /\ chat[res.sid].messages[1].content = res.body
        /\ chat[res.sid].isCompleted = FALSE
        /\ chat[res.sid].finalScore = Null
        /\ chat[res.sid].averageRelevance = Null
        /\ chat[res.sid].averageCorrectness = Null

\* questions were generated again for a session that was completed with scores
C12_Witness ==
    /\ res.op = "generate" /\ res.status = 200 /\ res.wasCompleted
    /\ chat[res.sid].messages[1].content = res.body
    /\ chat[res.sid].isCompleted = FALSE

\* C15 (SpecChat): a successful deleteChatSession for session s of owner u
\* removes session s and every Document of owner u with sessionId s, and
\* leaves every other session and every Document with another sessionId or
\* another owner as it was.
C15_DeleteCascadesToSessionDocuments ==
    [][ (res'.n = res.n + 1 /\ res'.op = "delete" /\ res'.status = 200) =>
          LET s == res'.sid
              u == chat[s].userId
          IN  /\ ~chat'[s].exists
              /\ ~\E d \in documents' : d.userId = u /\ d.sessionId = s
              /\ Len(chat') = Len(chat)
              /\ \A t \in DOMAIN chat : t # s => chat'[t] = chat[t]
              /\ documents' \subseteq documents
              /\ \A d \in documents :
                    (d.sessionId # s \/ d.userId # u) => d \in documents' ]_vars

\* session 1 of u1 was deleted with its two Documents; the global resume of
\* u1, the Documents of u2 (one of them with sessionId 1) and another
\* session are still there
C15_Witness ==
    /\ res.op = "delete" /\ res.status = 200 /\ res.sid = 1
    /\ chat[1].userId = "u1" /\ ~chat[1].exists
    /\ Len(chat) = 2 /\ chat[2].exists
    /\ \E d \in documents : d.userId = "u1" /\ d.sessionId = 0
    /\ \E d \in documents : d.userId = "u2" /\ d.sessionId = 1
    /\ ~\E d \in documents : d.userId = "u1" /\ d.sessionId = 1

\* C11 (SpecChat): a successful submitAnswers on a session with N parsed
\* questions appends one user message holding the submitted text and then N
\* assistant messages, one per question in order, each with a relevanceScore
\* and a correctnessScore, sets isCompleted, and sets the three aggregates
\* from those N messages.
C11_SubmitAppendsAndScores ==
    [][ (res'.n = res.n + 1 /\ res'.op = "submit" /\ res'.status = 200) =>
          LET s == res'.sid
              old == chat[s].messages
              new == chat'[s].messages
              N == Len(parseQuestions(old[1].content))
              appended == SubSeq(new, Len(old) + 2, Len(new))
              scores == calculateFinalScores(appended)
          IN  /\ Len(new) = Len(old) + 1 + N
              /\ SubSeq(new, 1, Len(old)) = old
              /\ new[Len(old) + 1].role = "user"
              /\ new[Len(old) + 1].content = res'.body
              /\ \A k \in 1..N :
                    /\ appended[k].role = "assistant"
                    /\ appended[k].content[1].num = k
                    /\ appended[k].relevanceScore.type = "number"
                    /\ appended[k].correctnessScore.type = "number"
              /\ chat'[s].isCompleted
              /\ chat'[s].finalScore = scores.finalScore
              /\ chat'[s].averageRelevance = scores.averageRelevance
              /\ chat'[s].averageCorrectness = scores.averageCorrectness ]_vars


\* the messages the claim says are selected
SelectedMessages ==
    {i \in DOMAIN chat[1].messages :
        /\ chat[1].messages[i].role = "assistant"
        /\ chat[1].messages[i].relevanceScore.type = "number"
        /\ chat[1].messages[i].correctnessScore.type = "number"}

RECURSIVE SumOfScores(_, _)
SumOfScores(S, field) ==
    IF S = {} THEN 0
    ELSE LET i == CHOOSE j \in S : TRUE
         IN  chat[1].messages[i][field].n + SumOfScores(S \ {i}, field)

\* total / count rounded to one decimal, a tie up, in tenths
RoundedToOneDecimal(total, count) ==
    CHOOSE r \in 0..100 :
        2 * count * r <= 20 * total + count /\ 20 * total + count < 2 * count * (r + 1)

\* C16 (SpecScores): calculateFinalScores selects the assistant messages
\* with a numeric relevanceScore and a numeric correctnessScore; with none
\* selected the three aggregates are undefined, otherwise the two averages are
\* the means over the selected messages rounded to one decimal and
\* finalScore is (meanRelevance + meanCorrectness) / 2 rounded to one
\* decimal, whatever the `score` fields hold; relevance [8,6] with
\* correctness [6,8] gives 7.0, 7.0 and 7.0.
C16_FinalScores ==
    res.op = "scores" =>
        LET count == Cardinality(SelectedMessages)
            totalRelevance == SumOfScores(SelectedMessages, "relevanceScore")
            totalCorrectness == SumOfScores(SelectedMessages, "correctnessScore")
        IN  /\ IF count = 0
               THEN /\ chat[1].finalScore = Null
                    /\ chat[1].averageRelevance = Null
                    /\ chat[1].averageCorrectness = Null
               ELSE /\ chat[1].averageRelevance = Num(RoundedToOneDecimal(totalRelevance, count))
                    /\ chat[1].averageCorrectness = Num(RoundedToOneDecimal(totalCorrectness, count))
                    /\ chat[1].finalScore =
                           Num(RoundedToOneDecimal(totalRelevance + totalCorrectness, 2 * count))
            /\ ( /\ [i \in DOMAIN chat[1].messages |-> chat[1].messages[i].relevanceScore] = <<Num(8), Num(6)>>
                 /\ [i \in DOMAIN chat[1].messages |-> chat[1].messages[i].correctnessScore] = <<Num(6), Num(8)>>
                 /\ \A i \in DOMAIN chat[1].messages : chat[1].messages[i].role = "assistant" )
               => /\ chat[1].averageRelevance = Num(70)
                  /\ chat[1].averageCorrectness = Num(70)
                  /\ chat[1].finalScore = Num(70)

\* the scores were computed for relevance [8,6] and correctness [6,8], the
\* second message carrying an overall score of 10
C16_Witness ==
    /\ res.op = "scores"
    /\ Len(chat[1].messages) = 2
    /\ chat[1].messages[1].relevanceScore = Num(8) /\ chat[1].messages[1].correctnessScore = Num(6)
    /\ chat[1].messages[2].relevanceScore = Num(6) /\ chat[1].messages[2].correctnessScore = Num(8)
    /\ chat[1].messages[2].score = Num(10)
    /\ chat[1].finalScore = Num(70)
    /\ chat[1].averageRelevance = Num(70) /\ chat[1].averageCorrectness = Num(70)


\* the answer was parsed into a result list
EvalParsed ==
    /\ caller = "eval" /\ vpc = "done" /\ rpc = "returned" /\ verr = NoErr
    /\ NonEmptyList(qa) /\ vout.ok

HasHeader(t) == \E k \in DOMAIN t : t[k].k = "hdr"

FirstHeader(t) == CHOOSE k \in DOMAIN t : t[k].k = "hdr" /\ \A j \in 1..(k - 1) : t[j].k # "hdr"

\* the text between the first header and the next one (or the end)
FirstHeadedBlock(t) ==
    LET from == FirstHeader(t) + 1
        ends == {k \in from..Len(t) : t[k].k = "hdr"}
        to == IF ends = {} THEN Len(t)
              ELSE (CHOOSE k \in ends : \A j \in ends : k <= j) - 1
    IN  SubSeq(t, from, to)

\* the text before the first header
PreambleOf(t) == SubSeq(t, 1, FirstHeader(t) - 1)

HasText(b) == \E k \in DOMAIN b : b[k].k # "ws"

\* C21 (SpecEval): when the answer has a header followed by a non-empty
\* block, the first entry of the result is what that block parses to,
\* whatever precedes the first header.
C21_PreambleIgnored ==
    (EvalParsed /\ HasHeader(rout.val) /\ HasText(FirstHeadedBlock(rout.val))) =>
        vout.val[1] = ParseBlock(FirstHeadedBlock(rout.val))

\* the pieces of the answer between the headers that hold some text
NonEmptyBlocks(t) == SelectSeq(SplitOnHeaders(t), HasText)

\* C29 (SpecEval): the k-th non-empty block of the answer becomes entry k
\* of the result, whatever number its header carries, and with more blocks
\* than pairs the result is the first len(qaPairs) blocks in order.
C29_BlocksByPosition ==
    (EvalParsed /\ NonEmptyBlocks(rout.val) # <<>>) =>
        LET blocks == NonEmptyBlocks(rout.val)
        IN  /\ Len(vout.val) = Len(qa.a)
            /\ \A k \in 1..Min2(Len(blocks), Len(qa.a)) :
                  vout.val[k] = ParseBlock(blocks[k])

\* C29 witness: three blocks under the headers 3, 2, 1 for two pairs; the
\* result is what the blocks under 3 and 2 parse to, and the third block,
\* which parses to something else, is dropped.
C29_Witness ==
    /\ EvalParsed /\ Len(qa.a) = 2
    /\ Len(NonEmptyBlocks(rout.val)) = 3
    /\ rout.val[1] = Hdr(3)
    /\ vout.val[1] = ParseBlock(NonEmptyBlocks(rout.val)[1])
    /\ vout.val[2] = ParseBlock(NonEmptyBlocks(rout.val)[2])
    /\ vout.val[1] # vout.val[2]
    /\ ParseBlock(NonEmptyBlocks(rout.val)[3]) \notin {vout.val[1], vout.val[2]}


\* the chunk's embedding is the all-zero placeholder, as long as the query
ZeroChunk(c, q) ==
    /\ UsableChunk(c, q)
    /\ \A k \in DOMAIN c.embedding.a : c.embedding.a[k].n = 0

\* the query is a list of numbers, one of them not 0
NonZeroQuery ==
    /\ \A k \in DOMAIN queryEmbedding.a : queryEmbedding.a[k].type = "number"
    /\ \E k \in DOMAIN queryEmbedding.a : queryEmbedding.a[k].n # 0

\* chunk j goes before the zero-vector chunk i in the ranking: its
\* similarity is positive, or it is 0 too and j is earlier in the input
RanksBeforeZero(j, i) ==
    /\ UsableChunk(chunks.a[j], queryEmbedding)
    /\ LET dot == Dot(queryEmbedding.a, chunks.a[j].embedding.a)
       IN  dot > 0 \/ (dot = 0 /\ j < i)

\* C23 (SpecSimilar), the claim as stated: for a non-zero query a chunk
\* with the all-zero placeholder embedding is never among the returned
\* entries.
C23_ZeroVectorNeverReturned ==
    (SimilarCase /\ NonZeroQuery) =>
        \A e \in 1..Len(sout) : ~ZeroChunk(sout[e].chunk, queryEmbedding)

\* C23 (SpecSimilar), amended: for a non-zero query a chunk with the
\* all-zero placeholder embedding scores similarity 0, and it is returned
\* exactly when fewer than k chunks rank before it, k being topK when
\* topK is an integer >= 1 and 3 otherwise.
C23_ZeroVectorRankedAtZero ==
    (SimilarCase /\ NonZeroQuery) =>
        \A i \in DOMAIN chunks.a :
            ZeroChunk(chunks.a[i], queryEmbedding) =>
                /\ (\E e \in 1..Len(sout) : sout[e].index = i - 1)
                     <=> Cardinality({j \in DOMAIN chunks.a : RanksBeforeZero(j, i)})
                            < (IF topK.type = "number" /\ topK.n >= 1 THEN topK.n ELSE 3)
                /\ \A e \in 1..Len(sout) :
                      sout[e].index = i - 1 => sout[e].similarity.num = 0

\* C23 witness: of three chunks one points away from the query, one has the
\* zero vector and one points along the query; with topK 2 the zero-vector
\* chunk comes back second with similarity 0.
C23_Witness ==
    /\ SimilarCase /\ NonZeroQuery /\ Len(chunks.a) = 3 /\ topK = Num(2)
    /\ Len(sout) = 2
    /\ ZeroChunk(sout[2].chunk, queryEmbedding)
    /\ sout[2].similarity.num = 0
    /\ sout[1].similarity.num > 0
    /\ \E j \in DOMAIN chunks.a :
          /\ UsableChunk(chunks.a[j], queryEmbedding)
          /\ Dot(queryEmbedding.a, chunks.a[j].embedding.a) < 0


\* the number of lines "N. text" of a question text
QuestionCount(text) ==
    Cardinality({k \in DOMAIN text : text[k].num > 0 /\ text[k].words # <<>>})

\* C22 (SpecChat): a transcript that is not empty starts with an assistant
\* message without scores; a successful generateQuestions makes its text
\* that first message, no other request changes or removes the first
\* message, and a successful submitAnswers appends one evaluation per
\* question of the first message.
C22_FirstMessageIsQuestions ==
    /\ [](\A s \in DOMAIN chat :
            chat[s].messages # <<>> =>
                /\ chat[s].messages[1].role = "assistant"
                /\ chat[s].messages[1].relevanceScore = Null
                /\ chat[s].messages[1].correctnessScore = Null)
    /\ [][ \A s \in DOMAIN chat :
             IF res'.op = "generate" /\ res'.status = 200 /\ res'.sid = s
             THEN chat'[s].messages[1].content = res'.body
             ELSE /\ (chat[s].messages = <<>>) <=> (chat'[s].messages = <<>>)
                  /\ chat[s].messages # <<>> =>
                        /\ chat'[s].messages[1] = chat[s].messages[1]
                        /\ (res'.op = "submit" /\ res'.status = 200 /\ res'.sid = s) =>
                              Len(chat'[s].messages) =
                                 Len(chat[s].messages) + 1
                                    + QuestionCount(chat[s].messages[1].content) ]_vars

\* C22 witness: a second submission to a session whose question text has a
\* line without a number: the first message is still that text and the
\* transcript holds it and twice the answers with two evaluations.
C22_Witness ==
    /\ res.op = "submit" /\ res.status = 200 /\ res.wasCompleted
    /\ chat[res.sid].messages[1].role = "assistant"
    /\ chat[res.sid].messages[1].content[1].num = 0
    /\ QuestionCount(chat[res.sid].messages[1].content) = 2
    /\ Len(chat[res.sid].messages) = 7

\* the number of numbered answers of an answers text
AnswerCount(text) == Cardinality({k \in DOMAIN text : text[k].num > 0})

\* C24 (SpecChat): submitAnswers succeeds only when the submitted text
\* holds exactly as many numbered answers as the session has questions.
C24_ExactAnswerCount ==
    (res.op = "submit" /\ res.status = 200) =>
        AnswerCount(res.body) = QuestionCount(chat[res.sid].messages[1].content)

\* C26 (SpecChat): a completed session holds exactly one user message and
\* exactly N scored assistant messages, N being the number of its questions.
C26_EvaluatedOnce ==
    \A s \in DOMAIN chat :
        chat[s].isCompleted =>
            /\ Cardinality({k \in DOMAIN chat[s].messages :
                              chat[s].messages[k].role = "user"}) = 1
            /\ Cardinality({k \in DOMAIN chat[s].messages :
                              /\ chat[s].messages[k].role = "assistant"
                              /\ chat[s].messages[k].relevanceScore.type = "number"
                              /\ chat[s].messages[k].correctnessScore.type = "number"})
                 = QuestionCount(chat[s].messages[1].content)

\* the aggregate is set and lies in [1,10] (in tenths)
AggregateInRange(v) == v.type = "number" /\ 10 <= v.n /\ v.n <= 100

\* C27 (SpecChat): a session is completed exactly when its three aggregates
\* are set, and a set aggregate lies in [1,10].
C27_CompletedIffScored ==
    \A s \in DOMAIN chat :
        /\ chat[s].isCompleted <=>
              (chat[s].finalScore # Null /\ chat[s].averageRelevance # Null
               /\ chat[s].averageCorrectness # Null)
        /\ \A v \in {chat[s].finalScore, chat[s].averageRelevance, chat[s].averageCorrectness} :
              v # Null => AggregateInRange(v)

\* C27 witness: one session completed with the averages 10.0 and 1.0 (the
\* scores 15 and 0 of the answer, clamped) and another without any score
C27_Witness ==
    /\ Len(chat) = 2
    /\ chat[1].isCompleted
    /\ chat[1].averageRelevance = Num(100) /\ chat[1].averageCorrectness = Num(10)
    /\ chat[1].finalScore = Num(55)
    /\ ~chat[2].isCompleted /\ chat[2].finalScore = Null

\* C28 (SpecChat): a submitAnswers request that is rejected or fails leaves
\* every session as it was.
C28_FailedSubmitChangesNothing ==
    [][ (res'.n = res.n + 1 /\ res'.op = "submit" /\ res'.status # 200) =>
            chat' = chat /\ documents' = documents ]_vars

\* C28 witness: the query-embedding call failed for a session that has its
\* questions and its resume; the session still holds the questions only
C28_Witness ==
    /\ res.op = "submit" /\ res.status = 500
    /\ chat[res.sid].exists
    /\ Len(chat[res.sid].messages) = 1
    /\ ~chat[res.sid].isCompleted /\ chat[res.sid].finalScore = Null

\* C30 (SpecChat): every stored blob is the file of exactly one Document.
C30_NoOrphanedBlob ==
    \A b \in blobs : Cardinality({d \in documents : d.fileUrl = b}) = 1


\* C25 (SpecUpload): when an upload request that found a Document for its
\* key has ended in failure, that Document and its blob are still stored.
C25_FailedUploadKeepsDocument ==
    \A r \in DOMAIN uploads :
        (uploads[r].pc = "done" /\ uploads[r].status # 201 /\ uploads[r].existingDoc # 0) =>
            \E d \in documents : d.id = uploads[r].existingDoc /\ d.fileUrl \in blobs

====
